---------------------------- MODULE Spec2Model ----------------------------
(***************************************************************************)
(* FlexCode bot: extraction of betting-code conversion requests from text. *)
(*                                                                         *)
(* A text is a sequence of characters, each of them a string.  The regular *)
(* expressions of src/src/services/nlp_processor.py are computed           *)
(* position by position, as Python's re module computes them.  An          *)
(* optional value (Python's None) is the empty sequence; a present value   *)
(* x is the one-element sequence <<x>>.                                    *)
(***************************************************************************)
EXTENDS Integers, Sequences, FiniteSets, TLC

None == <<>>

Some(x) == <<x>>

(***************************************************************************)
(* Characters and the str methods the code uses.                           *)
(*                                                                         *)
(* The texts of the code are Python str values, and the re module and the  *)
(* str methods work on them by the Unicode character tables.  The          *)
(* alphabet of the model, Chars, is Latin-1 (U+0000 to U+00FF), the        *)
(* Arabic-Indic and the full-width digits, two spaces and five letters     *)
(* with a special case mapping from beyond Latin-1, and the characters     *)
(* that upper(), lower() and title() make of these.  A printable           *)
(* character of Latin-1 is written as itself, tab, line feed, form feed    *)
(* and carriage return by their escapes, every other character (and the    *)
(* grave accent, which a string cannot hold) by its code point: "U+0663"   *)
(* is ARABIC-INDIC DIGIT THREE, "U+00A0" the no-break space, "U+0060" the  *)
(* grave accent.  The operators are defined on Chars only.                 *)
(***************************************************************************)
\* [a-z] and [A-Z], a letter and its partner at the same index
LowerLetters ==
    <<"a","b","c","d","e","f","g","h","i","j","k","l","m",
      "n","o","p","q","r","s","t","u","v","w","x","y","z">>

UpperLetters ==
    <<"A","B","C","D","E","F","G","H","I","J","K","L","M",
      "N","O","P","Q","R","S","T","U","V","W","X","Y","Z">>

\* [0-9]
AsciiDigits == {"0","1","2","3","4","5","6","7","8","9"}

LowerSet == {LowerLetters[i] : i \in 1..26}

UpperSet == {UpperLetters[i] : i \in 1..26}

\* the letters beyond ASCII of which str.lower() and str.upper() are
\* inverse to each other, a letter and its partner at the same index
OtherLowerLetters ==
    <<
      "à","á","â","ã","ä","å","æ","ç","è","é","ê","ë","ì","í","î","ï","ð","ñ",
      "ò","ó","ô","õ","ö","ø","ù","ú","û","ü","ý","þ","ÿ","U+03BC"
    >>

OtherUpperLetters ==
    <<
      "À","Á","Â","Ã","Ä","Å","Æ","Ç","È","É","Ê","Ë","Ì","Í","Î","Ï","Ð","Ñ",
      "Ò","Ó","Ô","Õ","Ö","Ø","Ù","Ú","Û","Ü","Ý","Þ","U+0178","U+039C"
    >>

OtherLowerSet == {OtherLowerLetters[i] : i \in 1..Len(OtherLowerLetters)}

OtherUpperSet == {OtherUpperLetters[i] : i \in 1..Len(OtherUpperLetters)}

\* the decimal digits beyond ASCII: Arabic-Indic and full-width
OtherDigits ==
    {
      "U+0660","U+0661","U+0662","U+0663","U+0664","U+0665","U+0666","U+0667",
      "U+0668","U+0669","U+FF10","U+FF11","U+FF12","U+FF13","U+FF14","U+FF15",
      "U+FF16","U+FF17","U+FF18","U+FF19"
    }

\* \d of the re module on str: every decimal digit
DigitChars == AsciiDigits \cup OtherDigits

\* the cased letters beyond ASCII that have no partner
UnpairedLetters ==
    {
      "ª","µ","º","ß","U+0130","U+0131","U+017F","U+212A"
    }

\* the other characters of \w: superscript digits and fractions
OtherWordChars ==
    {
      "²","³","¹","¼","½","¾"
    }

\* \s of the re module on str, and the characters str.strip() removes
SpaceChars ==
    {
      "\t","\n","U+000B","\f","\r","U+001C","U+001D","U+001E","U+001F"," ",
      "U+0085","U+00A0","U+2003","U+3000"
    }

\* \w of the re module on str: letters, numeric characters and the underscore
WordChars ==
    LowerSet \cup UpperSet \cup OtherLowerSet \cup OtherUpperSet
        \cup UnpairedLetters \cup DigitChars \cup OtherWordChars \cup {"_"}

\* the characters that are neither \w nor \s
OtherChars ==
    {
      "U+0000","U+0001","U+0002","U+0003","U+0004","U+0005","U+0006","U+0007",
      "U+0008","U+000E","U+000F","U+0010","U+0011","U+0012","U+0013","U+0014",
      "U+0015","U+0016","U+0017","U+0018","U+0019","U+001A","U+001B","!","\"",
      "#","$","%","&","'","(",")","*","+",",","-",".","/",":",";","<","=",">",
      "?","@","[","\\","]","^","U+0060","{","|","}","~","U+007F","U+0080","U+0081",
      "U+0082","U+0083","U+0084","U+0086","U+0087","U+0088","U+0089","U+008A",
      "U+008B","U+008C","U+008D","U+008E","U+008F","U+0090","U+0091","U+0092",
      "U+0093","U+0094","U+0095","U+0096","U+0097","U+0098","U+0099","U+009A",
      "U+009B","U+009C","U+009D","U+009E","U+009F","¡","¢","£","¤","¥","¦",
      "§","¨","©","«","¬","U+00AD","®","¯","°","±","´","¶","·","¸","»","¿",
      "×","÷","U+0307"
    }

Chars == WordChars \cup SpaceChars \cup OtherChars

\* A character class as the regular expressions and the str methods use
\* it: for each character of the alphabet, whether it is in the set.
ClassOf(set) == [c \in Chars |-> c \in set]

\* \w
WordClass == ClassOf(WordChars)

\* \s
SpaceClass == ClassOf(SpaceChars)

\* \d
DigitClass == ClassOf(DigitChars)

\* [A-Z]
UpperClass == ClassOf(UpperSet)

\* [A-Z0-9]
UpperOrDigitClass == ClassOf(UpperSet \cup AsciiDigits)

\* the cased characters: str.title() takes the character after one of them
\* for the inside of a word
CasedClass ==
    ClassOf(LowerSet \cup UpperSet \cup OtherLowerSet \cup OtherUpperSet
                \cup UnpairedLetters)

IsWordChar(c) == WordClass[c]

IsSpaceChar(c) == SpaceClass[c]

IsCased(c) == CasedClass[c]

LetterIndex(c, letters) == CHOOSE i \in 1..Len(letters) : letters[i] = c

\* The upper case of a character: one character or, for the sharp s, two.
\* The micro sign, the dotless i and the long s have an upper case that
\* has another lower case.
UpperCase(c) ==
    CASE c \in LowerSet -> <<UpperLetters[LetterIndex(c, LowerLetters)]>>
      [] c \in OtherLowerSet -> <<OtherUpperLetters[LetterIndex(c, OtherLowerLetters)]>>
      [] c = "ß" -> <<"S", "S">>
      [] c = "µ" -> <<"U+039C">>
      [] c = "U+0131" -> <<"I">>
      [] c = "U+017F" -> <<"S">>
      [] c \in Chars \ (LowerSet \cup OtherLowerSet \cup {"ß", "µ", "U+0131", "U+017F"})
            -> <<c>>

\* The lower case of a character: one character or, for the dotted capital
\* I, two.  The lower case of the Kelvin sign is the letter k.
LowerCase(c) ==
    CASE c \in UpperSet -> <<LowerLetters[LetterIndex(c, UpperLetters)]>>
      [] c \in OtherUpperSet -> <<OtherLowerLetters[LetterIndex(c, OtherUpperLetters)]>>
      [] c = "U+0130" -> <<"i", "U+0307">>
      [] c = "U+212A" -> <<"k">>
      [] c \in Chars \ (UpperSet \cup OtherUpperSet \cup {"U+0130", "U+212A"}) -> <<c>>

UpperTable == [c \in Chars |-> UpperCase(c)]

LowerTable == [c \in Chars |-> LowerCase(c)]

\* str.upper() on one character
UpperChar(c) == UpperTable[c]

\* str.lower() on one character
LowerChar(c) == LowerTable[c]

\* the title case of one character: its upper case, but "Ss" for the sharp s
TitleChar(c) == IF c = "ß" THEN <<"S", "s">> ELSE UpperChar(c)

SetMin(S) == CHOOSE x \in S : \A y \in S : x <= y

SetMax(S) == CHOOSE x \in S : \A y \in S : y <= x

\* the concatenation of the parts from index i on; the parts of one
\* character are taken together up to the next part of another length
RECURSIVE Flatten(_, _)
Flatten(parts, i) ==
    LET wide == {j \in i..Len(parts) : Len(parts[j]) # 1}
        stop == IF wide = {} THEN Len(parts) + 1 ELSE SetMin(wide)
        ones == [k \in 1..(stop - i) |-> parts[i + k - 1][1]]
    IN  IF wide = {} THEN ones ELSE ones \o parts[stop] \o Flatten(parts, stop + 1)

\* str.upper()
upper(s) == Flatten([i \in 1..Len(s) |-> UpperChar(s[i])], 1)

\* str.lower()
lower(s) == Flatten([i \in 1..Len(s) |-> LowerChar(s[i])], 1)

\* str.title(): a character is lower-cased when the character before it is
\* cased, and title-cased otherwise (also when it is the first)
title(s) ==
    Flatten([i \in 1..Len(s) |->
                IF i > 1 /\ IsCased(s[i-1]) THEN LowerChar(s[i]) ELSE TitleChar(s[i])], 1)

\* the index after the longest run of characters of class cls that starts at i
RunEnd(s, i, cls) ==
    SetMin({j \in i..(Len(s) + 1) : j = Len(s) + 1 \/ ~cls[s[j]]})

\* str.strip(): leading and trailing whitespace removed
strip(s) ==
    LET first == RunEnd(s, 1, SpaceClass)
        lasts == {j \in 1..Len(s) : ~IsSpaceChar(s[j])}
    IN  IF first > Len(s) THEN <<>> ELSE SubSeq(s, first, SetMax(lasts))

\* "sub in s" for strings
Contains(s, sub) ==
    \E i \in 1..(Len(s) - Len(sub) + 1) : SubSeq(s, i, i + Len(sub) - 1) = sub

\* "x in list"
InList(x, list) == \E i \in 1..Len(list) : list[i] = x

\* "remove duplicates while preserving order": the loop of lines 114-117
\* and 148-151
RECURSIVE UniqueFrom(_, _, _)
UniqueFrom(list, i, acc) ==
    IF i > Len(list) THEN acc
    ELSE UniqueFrom(list, i + 1,
                    IF InList(list[i], acc) THEN acc ELSE Append(acc, list[i]))

Unique(list) == UniqueFrom(list, 1, <<>>)

(***************************************************************************)
(* _preprocess_text                                                        *)
(***************************************************************************)
\* re.sub(marker + r'\w+', '', s) from position i on: the leftmost marker
\* that is followed by a word character is removed together with the word
\* characters after it, and the scan goes on behind them
RECURSIVE RemoveMarked(_, _, _)
RemoveMarked(s, i, marker) ==
    LET starts == {j \in i..(Len(s) - 1) : s[j] = marker /\ IsWordChar(s[j+1])}
    IN  IF starts = {} THEN SubSeq(s, i, Len(s))
        ELSE LET j == SetMin(starts)
             IN  SubSeq(s, i, j - 1) \o RemoveMarked(s, RunEnd(s, j + 1, WordClass), marker)

\* re.sub(r'\s+', ' ', s) from position i on
RECURSIVE CollapseSpaces(_, _)
CollapseSpaces(s, i) ==
    LET starts == {j \in i..Len(s) : IsSpaceChar(s[j])}
    IN  IF starts = {} THEN SubSeq(s, i, Len(s))
        ELSE LET j == SetMin(starts)
             IN  SubSeq(s, i, j - 1) \o <<" ">>
                     \o CollapseSpaces(s, RunEnd(s, j, SpaceClass))

\* _preprocess_text without the .strip() of line 87
preprocess_text_without_strip(s) ==
    LET noMentions == RemoveMarked(s, 1, "@")
        noHashtags == RemoveMarked(noMentions, 1, "#")
    IN  CollapseSpaces(noHashtags, 1)

preprocess_text(s) ==
    LET noMentions == RemoveMarked(s, 1, "@")
        noHashtags == RemoveMarked(noMentions, 1, "#")
    IN  strip(CollapseSpaces(noHashtags, 1))

(***************************************************************************)
(* _extract_codes                                                          *)
(***************************************************************************)
\* \b at position i: exactly one of the characters before and at i is a
\* word character
IsWordAt(s, i) == i >= 1 /\ i <= Len(s) /\ IsWordChar(s[i])

Boundary(s, i) == IsWordAt(s, i - 1) # IsWordAt(s, i)

\* the quantifier bounds of the three code patterns
AlnumMin == 6

AlnumMax == 12

DigitsMin == 8

DigitsMax == 15

PrefixMin == 2

PrefixMax == 4

SuffixMin == 4

SuffixMax == 8

\* \b cls{lo,hi} \b at position i: the index after the match, the longest
\* repetition that ends on a boundary being the one taken, or 0
ClassRunMatch(s, i, cls, lo, hi) ==
    LET run == RunEnd(s, i, cls) - i
        ns  == {n \in lo..hi : n <= run /\ Boundary(s, i + n)}
    IN  IF Boundary(s, i) /\ ns # {} THEN i + SetMax(ns) ELSE 0

\* \b[A-Z]{2,4}\d{4,8}\b at position i
PrefixedMatch(s, i) ==
    LET letters == RunEnd(s, i, UpperClass) - i
        as == {a \in PrefixMin..PrefixMax :
                  /\ a <= letters
                  /\ \E d \in SuffixMin..SuffixMax :
                        /\ d <= RunEnd(s, i + a, DigitClass) - (i + a)
                        /\ Boundary(s, i + a + d)}
    IN  IF Boundary(s, i) /\ as # {}
        THEN LET a == SetMax(as)
                 digits == RunEnd(s, i + a, DigitClass) - (i + a)
             IN  i + a + SetMax({d \in SuffixMin..SuffixMax :
                                    d <= digits /\ Boundary(s, i + a + d)})
        ELSE 0

\* the patterns of lines 102-106, by their index in the list
CodePatternMatch(k, s, i) ==
    CASE k = 1 -> ClassRunMatch(s, i, UpperOrDigitClass, AlnumMin, AlnumMax)
      [] k = 2 -> ClassRunMatch(s, i, DigitClass, DigitsMin, DigitsMax)
      [] k = 3 -> PrefixedMatch(s, i)

\* re.findall(pattern, s) from position i on: the leftmost match, then the
\* matches behind it (matches do not overlap)
RECURSIVE FindAllCodes(_, _, _)
FindAllCodes(k, s, i) ==
    LET starts == {j \in i..Len(s) : CodePatternMatch(k, s, j) > 0}
    IN  IF starts = {} THEN <<>>
        ELSE LET j == SetMin(starts)
                 e == CodePatternMatch(k, s, j)
             IN  <<SubSeq(s, j, e - 1)>> \o FindAllCodes(k, s, e)

\* _extract_codes with the pattern of the digits first in the list
extract_codes_digits_first(s) ==
    LET u == upper(s)
    IN  Unique(FindAllCodes(2, u, 1) \o FindAllCodes(1, u, 1) \o FindAllCodes(3, u, 1))

extract_codes(s) ==
    LET u == upper(s)
    IN  Unique(FindAllCodes(1, u, 1) \o FindAllCodes(2, u, 1) \o FindAllCodes(3, u, 1))

(***************************************************************************)
(* _extract_platforms and _nlp_extract_entities                            *)
(***************************************************************************)
\* self.known_platforms, a set; listed in the order of lines 35-37
known_platforms ==
    <<
      <<"s","t","a","k","e">>,
      <<"s","p","o","r","t","y","b","e","t">>,
      <<"b","e","t","9","j","a">>,
      <<"1","x","b","e","t">>,
      <<"b","e","t","w","a","y">>,
      <<"n","a","i","r","a","b","e","t">>,
      <<"m","e","r","r","y","b","e","t">>,
      <<"b","e","t","k","i","n","g">>,
      <<"b","e","t","n","a","i","j","a">>,
      <<"s","u","p","a","b","e","t">>,
      <<"b","e","t","b","o","n","a","n","z","a">>,
      <<"a","c","c","e","s","s","b","e","t">>,
      <<"b","e","t","p","a","w","a">>,
      <<"m","s","p","o","r","t">>,
      <<"p","a","r","i","m","a","t","c","h">>,
      <<"b","e","t","f","a","i","r">>
    >>

\* "name in self.known_platforms"
IsKnownPlatform(name) == InList(name, known_platforms)

\* the vocabulary entries that occur in the lower-cased text (line 137)
KeywordHits(s) ==
    LET text_lower == lower(s)
    IN  {k \in 1..Len(known_platforms) : Contains(text_lower, known_platforms[k])}

\* The iteration orders of a set of hits.  known_platforms is a Python set
\* of strings: its iteration order depends on the hash seed of the process,
\* so the hits may come in any order.
IterationOrders(hits) ==
    {ord \in [1..Cardinality(hits) -> hits] :
        \A i, j \in 1..Cardinality(hits) : i # j => ord[i] # ord[j]}

\* the keyword pass (lines 135-138) under one iteration order of the hits
KeywordPass(ord) == [i \in 1..Len(ord) |-> title(known_platforms[ord[i]])]

\* str.replace(old, '') for a two-character old, from position i on
RECURSIVE RemovePair(_, _, _)
RemovePair(s, i, c) ==
    LET starts == {j \in i..(Len(s) - 1) : s[j] = c /\ s[j+1] = c}
    IN  IF starts = {} THEN SubSeq(s, i, Len(s))
        ELSE LET j == SetMin(starts)
             IN  SubSeq(s, i, j - 1) \o RemovePair(s, j + 2, c)

\* line 185: the entity is tagged as an organization
IsOrgEntity(e) == e.entity_group = "ORG" \/ e.entity \in {"B-ORG", "I-ORG"}

\* An entity on which lines 185-186 raise: it is no dict (no .get), or it is
\* an organization whose word is null (None has no .replace).
EntityRaises(e) == ~e.is_dict \/ (IsOrgEntity(e) /\ e.word = None)

\* line 186
EntityWord(e) == strip(RemovePair(e.word[1], 1, "#"))

MinWordLen == 2

\* lines 183-188: the loop over the entities of a well-formed response
RECURSIVE OrgPlatforms(_, _)
OrgPlatforms(entities, i) ==
    IF i > Len(entities) THEN <<>>
    ELSE LET e == entities[i]
         IN  (IF IsOrgEntity(e) /\ Len(EntityWord(e)) > MinWordLen
              THEN <<title(EntityWord(e))>> ELSE <<>>)
             \o OrgPlatforms(entities, i + 1)

\* The outcomes of requests.post and response.json() that end in the
\* except clause of line 192: the call raised, the body is no JSON, the
\* JSON value cannot be iterated (line 184), or an element the loop comes
\* to raises in lines 185-186.  A value the loop goes through without
\* coming to such an element raises nothing, whether it is a list or not:
\* for {} and "" the loop has no turn and line 190 returns [].
ReplyRaises(reply) ==
    \/ reply.kind \in {"raise", "bad_json", "not_iterable"}
    \/ /\ reply.kind \in {"ok", "not_list"}
       /\ \E i \in 1..Len(reply.entities) : EntityRaises(reply.entities[i])

\* the index of the first entity that raises, or one past the last entity
FirstRaising(entities) ==
    SetMin({i \in 1..(Len(entities) + 1) : i > Len(entities) \/ EntityRaises(entities[i])})

\* _nlp_extract_entities with "return platforms" in the except clause: the
\* candidates collected before the exception are kept
nlp_extract_entities_keeping_partial(reply) ==
    IF reply.kind \notin {"ok", "not_list"} THEN <<>>
    ELSE OrgPlatforms(SubSeq(reply.entities, 1, FirstRaising(reply.entities) - 1), 1)

\* _nlp_extract_entities, given the outcome of the request: [] on a status
\* other than 200 (line 178) and on any exception (line 194); otherwise
\* what the loop collected
nlp_extract_entities(reply) ==
    IF reply.kind = "bad_status" THEN <<>>
    ELSE IF ReplyRaises(reply) THEN <<>>
    ELSE OrgPlatforms(reply.entities, 1)

\* lines 143 and 147-154: extend by the entities, then drop duplicates
merge_platforms(keyword, nlp) == Unique(keyword \o nlp)

(***************************************************************************)
(* The canonical key of a platform name: _normalize_platform_name of       *)
(* src/src/services/bet_converter.py up to its lookup of the supported     *)
(* platforms.                                                              *)
(***************************************************************************)
\* platform_variations, lines 195-206: pairs of a variation and its
\* standard name, in the order of the dict
platform_variations ==
    <<
      <<<<"s","p","o","r","t","y">>,
        <<"s","p","o","r","t","y","b","e","t">>>>,
      <<<<"s","p","o","r","t","y"," ","b","e","t">>,
        <<"s","p","o","r","t","y","b","e","t">>>>,
      <<<<"1","x">>,
        <<"1","x","b","e","t">>>>,
      <<<<"1","x"," ","b","e","t">>,
        <<"1","x","b","e","t">>>>,
      <<<<"b","e","t"," ","9","j","a">>,
        <<"b","e","t","9","j","a">>>>,
      <<<<"n","a","i","r","a"," ","b","e","t">>,
        <<"n","a","i","r","a","b","e","t">>>>,
      <<<<"m","e","r","r","y"," ","b","e","t">>,
        <<"m","e","r","r","y","b","e","t">>>>,
      <<<<"b","e","t"," ","k","i","n","g">>,
        <<"b","e","t","k","i","n","g">>>>,
      <<<<"b","e","t"," ","n","a","i","j","a">>,
        <<"b","e","t","n","a","i","j","a">>>>,
      <<<<"s","u","p","a"," ","b","e","t">>,
        <<"s","u","p","a","b","e","t">>>>
    >>

\* lines 192-212: lower-cased and trimmed, then replaced by the standard
\* name of the first variation it contains
CanonicalKey(name) ==
    LET normalized == strip(lower(name))
        found == {k \in 1..Len(platform_variations) :
                     Contains(normalized, platform_variations[k][1])}
    IN  IF found = {} THEN normalized ELSE platform_variations[SetMin(found)][2]

(***************************************************************************)
(* _parse_conversion_instructions                                          *)
(***************************************************************************)
Lit(v) == [t |-> "lit", v |-> v]

\* \s+
Ws == [t |-> "ws", v |-> <<>>]

\* (\w+)
Grp == [t |-> "grp", v |-> <<>>]

\* conversion_patterns, lines 217-222
conversion_patterns ==
    <<
      <<Lit(<<"c","o","n","v","e","r","t">>), Ws, Grp, Ws, Lit(<<"c","o","d","e">>), Ws,
        Grp, Ws, Lit(<<"t","o">>), Ws, Grp>>,
      <<Grp, Ws, Lit(<<"c","o","d","e">>), Ws, Grp, Ws, Lit(<<"t","o">>), Ws, Grp>>,
      <<Lit(<<"f","r","o","m">>), Ws, Grp, Ws, Grp, Ws, Lit(<<"t","o">>), Ws, Grp>>,
      <<Grp, Ws, Grp, Ws, Lit(<<"t","o">>), Ws, Grp>>
    >>

NoMatch == [ok |-> FALSE, end |-> 0, groups |-> <<>>]

\* The match of the elements k.. of a pattern at position i.  \s+ and \w+
\* take the longest run: in these patterns the element after a run never
\* starts with a character of the run's class, so a shorter run cannot match.
RECURSIVE MatchFrom(_, _, _, _, _)
MatchFrom(pat, k, s, i, groups) ==
    IF k > Len(pat) THEN [ok |-> TRUE, end |-> i, groups |-> groups]
    ELSE LET el == pat[k]
         IN  CASE el.t = "lit" ->
                    IF i + Len(el.v) - 1 <= Len(s) /\ SubSeq(s, i, i + Len(el.v) - 1) = el.v
                    THEN MatchFrom(pat, k + 1, s, i + Len(el.v), groups)
                    ELSE NoMatch
               [] el.t = "ws" ->
                    LET e == RunEnd(s, i, SpaceClass)
                    IN  IF e > i THEN MatchFrom(pat, k + 1, s, e, groups) ELSE NoMatch
               [] el.t = "grp" ->
                    LET e == RunEnd(s, i, WordClass)
                    IN  IF e > i
                        THEN MatchFrom(pat, k + 1, s, e, Append(groups, SubSeq(s, i, e - 1)))
                        ELSE NoMatch

\* re.finditer(pattern, s) from position i on: the groups of the leftmost
\* match, then those of the matches behind it
RECURSIVE FindIter(_, _, _)
FindIter(pat, s, i) ==
    LET starts == {j \in i..Len(s) : MatchFrom(pat, 1, s, j, <<>>).ok}
    IN  IF starts = {} THEN <<>>
        ELSE LET m == MatchFrom(pat, 1, s, SetMin(starts), <<>>)
             IN  <<m.groups>> \o FindIter(pat, s, m.end)

\* line 235: the group is one of the extracted codes, whatever the case
IsCodeSlot(group, codes) ==
    \E i \in 1..Len(codes) : upper(codes[i]) = upper(group)

\* line 237: the group names a platform
IsPlatformSlot(group, platforms) ==
    InList(title(group), platforms) \/ IsKnownPlatform(lower(group))

\* lines 234-241 with the two platform slots filled in the other order
ClassifyGroupTargetFirst(slots, group, codes, platforms) ==
    IF IsCodeSlot(group, codes)
    THEN [slots EXCEPT !.code = Some(upper(group))]
    ELSE IF IsPlatformSlot(group, platforms)
         THEN IF slots.target_platform = None
              THEN [slots EXCEPT !.target_platform = Some(title(group))]
              ELSE [slots EXCEPT !.original_platform = Some(title(group))]
         ELSE slots

\* lines 234-241: one turn of the loop over the groups of a match
ClassifyGroup(slots, group, codes, platforms) ==
    IF IsCodeSlot(group, codes)
    THEN [slots EXCEPT !.code = Some(upper(group))]
    ELSE IF IsPlatformSlot(group, platforms)
         THEN IF slots.original_platform = None
              THEN [slots EXCEPT !.original_platform = Some(title(group))]
              ELSE [slots EXCEPT !.target_platform = Some(title(group))]
         ELSE slots

RECURSIVE ClassifyGroups(_, _, _, _, _)
ClassifyGroups(slots, groups, i, codes, platforms) ==
    IF i > Len(groups) THEN slots
    ELSE ClassifyGroups(ClassifyGroup(slots, groups[i], codes, platforms),
                        groups, i + 1, codes, platforms)

EmptySlots == [code |-> None, original_platform |-> None, target_platform |-> None]

Pair(code, original, target) ==
    [code |-> code, original_platform |-> original, target_platform |-> target]

\* lines 243-248 without the test of line 243: the second group stands in
\* for a code that was not found
MatchPairsWithoutCodeCheck(groups, code_list, platform_list) ==
    LET slots == ClassifyGroups(EmptySlots, groups, 1, code_list, platform_list)
    IN  <<Pair(IF slots.code # None THEN slots.code[1] ELSE upper(groups[2]),
               slots.original_platform, slots.target_platform)>>

\* lines 227-248: the pairs a match contributes: one if a code slot was
\* found, none otherwise
MatchPairs(groups, code_list, platform_list) ==
    LET slots == ClassifyGroups(EmptySlots, groups, 1, code_list, platform_list)
    IN  IF slots.code # None
        THEN <<Pair(slots.code[1], slots.original_platform, slots.target_platform)>>
        ELSE <<>>

\* the loop over the matches with a pair dropped when an earlier match gave
\* the same pair
MatchesPairsDeduplicated(matches, i, codes, platforms) ==
    LET RECURSIVE All(_)
        All(k) == IF k > Len(matches) THEN <<>>
                  ELSE MatchPairs(matches[k], codes, platforms) \o All(k + 1)
    IN  Unique(All(i))

RECURSIVE MatchesPairs(_, _, _, _)
MatchesPairs(matches, i, codes, platforms) ==
    IF i > Len(matches) THEN <<>>
    ELSE MatchPairs(matches[i], codes, platforms)
            \o MatchesPairs(matches, i + 1, codes, platforms)

PatternPairs(k, text_lower, codes, platforms) ==
    MatchesPairs(FindIter(conversion_patterns[k], text_lower, 1), 1, codes, platforms)

\* lines 224-248: the pattern loop
Tier1Pairs(text, codes, platforms) ==
    LET text_lower == lower(text)
    IN  PatternPairs(1, text_lower, codes, platforms)
            \o PatternPairs(2, text_lower, codes, platforms)
            \o PatternPairs(3, text_lower, codes, platforms)
            \o PatternPairs(4, text_lower, codes, platforms)

\* lines 224-227: the groups of the matches the pattern loop goes through,
\* pattern by pattern and, within a pattern, from left to right
Tier1Matches(text) ==
    LET text_lower == lower(text)
    IN  FindIter(conversion_patterns[1], text_lower, 1)
            \o FindIter(conversion_patterns[2], text_lower, 1)
            \o FindIter(conversion_patterns[3], text_lower, 1)
            \o FindIter(conversion_patterns[4], text_lower, 1)

\* platforms[i] if i < len(platforms) else None, for a 0-based index i
PlatformAt(platforms, i) ==
    IF i < Len(platforms) THEN Some(platforms[i + 1]) ELSE None

\* lines 252-260 with i and i + 1 in place of i * 2 and i * 2 + 1
Tier2PairsConsecutive(codes, platforms) ==
    [i \in 1..Len(codes) |->
        Pair(codes[i], PlatformAt(platforms, i - 1), PlatformAt(platforms, i))]

\* lines 252-260: codes paired with platforms by position
Tier2Pairs(codes, platforms) ==
    [i \in 1..Len(codes) |->
        Pair(codes[i], PlatformAt(platforms, (i - 1) * 2),
             PlatformAt(platforms, (i - 1) * 2 + 1))]

\* lines 264-269: codes without platforms
Tier3Pairs(codes) == [i \in 1..Len(codes) |-> Pair(codes[i], None, None)]

\* line 251 without its "not conversion_pairs"
Tier2AppliesWithoutEmptyCheck(pairs, code_list) == code_list # <<>>

\* the conditions of lines 251 and 263
Tier2Applies(pairs, code_list) == pairs = <<>> /\ code_list # <<>>

Tier3Applies(pairs, code_list) == pairs = <<>> /\ code_list # <<>>

\* the whole of _parse_conversion_instructions
parse_conversion_instructions(text, codes, platforms) ==
    LET t1 == Tier1Pairs(text, codes, platforms)
        t2 == IF Tier2Applies(t1, codes) THEN t1 \o Tier2Pairs(codes, platforms) ELSE t1
    IN  IF Tier3Applies(t2, codes) THEN t2 \o Tier3Pairs(codes) ELSE t2


(***************************************************************************)
(* The inputs of the model                                                 *)
(***************************************************************************)
\* "@FlexCodeBot Convert Stake code ABC123 to SportyBet"
ScenarioA ==
    <<"@","F","l","e","x","C","o","d","e","B","o","t"," ","C","o","n","v","e","r","t"," ","S",
      "t","a","k","e"," ","c","o","d","e"," ","A","B","C","1","2","3"," ","t","o"," ","S","p",
      "o","r","t","y","B","e","t">>

\* "Convert ABC123 to SportyBet"
ScenarioB ==
    <<"C","o","n","v","e","r","t"," ","A","B","C","1","2","3"," ","t","o"," ","S","p","o","r",
      "t","y","B","e","t">>

\* "Hello, how are you?"
ScenarioC ==
    <<"H","e","l","l","o",","," ","h","o","w"," ","a","r","e"," ","y","o","u","?">>

\* "Convert Stake code ABC123 to SportyBet and Bet9ja code XYZ789 to 1xBet"
ScenarioD ==
    <<"C","o","n","v","e","r","t"," ","S","t","a","k","e"," ","c","o","d","e"," ","A","B","C",
      "1","2","3"," ","t","o"," ","S","p","o","r","t","y","B","e","t"," ","a","n","d"," ","B",
      "e","t","9","j","a"," ","c","o","d","e"," ","X","Y","Z","7","8","9"," ","t","o"," ","1",
      "x","B","e","t">>

\* "#bet  AB12345\tstake  betway "
PositionalText ==
    <<"#","b","e","t"," "," ","A","B","1","2","3","4","5","\t","s","t","a","k","e"," "," ","b",
      "e","t","w","a","y"," ">>

\* "@bot 12345678 stake"
NumericText ==
    <<"@","b","o","t"," ","1","2","3","4","5","6","7","8"," ","s","t","a","k","e">>

\* "from stake to 1xbet"
PlatformOnlyText ==
    <<"f","r","o","m"," ","s","t","a","k","e"," ","t","o"," ","1","x","b","e","t">>

\* "convert Stake code ABC123 to SportyBet"
TestParseText ==
    <<"c","o","n","v","e","r","t"," ","S","t","a","k","e"," ","c","o","d","e"," ","A","B","C",
      "1","2","3"," ","t","o"," ","S","p","o","r","t","y","B","e","t">>

\* "convert Stake code ABC123 to SportyBet and Bet9ja code XYZ789 to 1xBet"
TestParseTwoText ==
    <<"c","o","n","v","e","r","t"," ","S","t","a","k","e"," ","c","o","d","e"," ","A","B","C",
      "1","2","3"," ","t","o"," ","S","p","o","r","t","y","B","e","t"," ","a","n","d"," ","B",
      "e","t","9","j","a"," ","c","o","d","e"," ","X","Y","Z","7","8","9"," ","t","o"," ","1",
      "x","B","e","t">>

\* "ABC123 from stake"
NoPatternText ==
    <<"A","B","C","1","2","3"," ","f","r","o","m"," ","s","t","a","k","e">>

\* "ABC123"
ABC123 ==
    <<"A","B","C","1","2","3">>

\* "XYZ789"
XYZ789 ==
    <<"X","Y","Z","7","8","9">>

\* "Stake"
Stake ==
    <<"S","t","a","k","e">>

\* "SportyBet"
SportyBet ==
    <<"S","p","o","r","t","y","B","e","t">>

\* "Sportybet"
Sportybet ==
    <<"S","p","o","r","t","y","b","e","t">>

\* "Bet9ja"
Bet9ja ==
    <<"B","e","t","9","j","a">>

\* "1xBet"
OneXBet ==
    <<"1","x","B","e","t">>

\* "Stake"
WordStake ==
    <<"S","t","a","k","e">>

\* "##pawa"
WordPawa ==
    <<"#","#","p","a","w","a">>

\* "John"
WordJohn ==
    <<"J","o","h","n">>

\* "convert P code C to Q"
ConvertText(P, C, Q) ==
    <<"c","o","n","v","e","r","t"," ">> \o P \o <<" ","c","o","d","e"," ">> \o C
        \o <<" ","t","o"," ">> \o Q

\* "convert Stake code ABC123 to 1xBet": an explicit request whose platform
\* names are too short to be taken for codes
ExplicitText == ConvertText(Stake, ABC123, OneXBet)

\* the message texts handed to extract_betting_info
\* "straß": five letters, of which str.upper() makes the six of "STRASS"
Strass ==
    <<"s","t","r","a","ß">>

\* "convert staKe code straß to 1xbet" with a no-break space after
\* "convert" and the Kelvin sign for the k of "stake"
UnicodeText ==
    <<"c","o","n","v","e","r","t","U+00A0","s","t","a","U+212A","e"," ",
      "c","o","d","e"," ">> \o Strass \o <<" ","t","o"," ","1","x","b","e","t">>

RawTexts ==
    {ScenarioA, ScenarioB, ScenarioC, ScenarioD, PositionalText, NumericText,
     PlatformOnlyText, ExplicitText, UnicodeText}

\* a message text, or None for an argument that is no string
FacadeInputs == {None} \cup {Some(t) : t \in RawTexts}

\* The internal step that is made to raise, as tests/test_nlp.py patches
\* _extract_codes with side_effect=Exception("Test error"); "none" leaves
\* the steps as they are.
Faults == {"none", "preprocess", "extract_codes", "extract_platforms", "parse"}

\* entities of a response of the recognition service
OrgStake ==
    [is_dict |-> TRUE, entity_group |-> "ORG", entity |-> "absent", word |-> Some(WordStake)]

SubTokenPawa ==
    [is_dict |-> TRUE, entity_group |-> "absent", entity |-> "I-ORG", word |-> Some(WordPawa)]

PersonJohn ==
    [is_dict |-> TRUE, entity_group |-> "PER", entity |-> "absent", word |-> Some(WordJohn)]

\* "Sporty"
WordSporty ==
    <<"S","p","o","r","t","y">>

\* {"entity_group": "ORG", "word": "Sporty"}
OrgSporty ==
    [is_dict |-> TRUE, entity_group |-> "ORG", entity |-> "absent", word |-> Some(WordSporty)]

\* {"entity_group": "ORG", "word": null}
OrgNullWord ==
    [is_dict |-> TRUE, entity_group |-> "ORG", entity |-> "absent", word |-> None]

\* a list element that is no JSON object
NotADict ==
    [is_dict |-> FALSE, entity_group |-> "absent", entity |-> "absent", word |-> None]

EntityPool == {OrgStake, OrgSporty, SubTokenPawa, PersonJohn, OrgNullWord, NotADict}

\* the longest list of entities in a response
MaxEntities == 2

SeqsUpTo(S, n) == UNION {[1..k -> S] : k \in 0..n}

DistinctSeqsUpTo(S, n) ==
    {q \in SeqsUpTo(S, n) : \A i, j \in 1..Len(q) : i # j => q[i] # q[j]}

NoReply == [kind |-> "none", entities |-> <<>>]

\* The outcomes of the request of lines 171-174 and of response.json():
\* "ok" is status 200 with a JSON list, "bad_status" a status other than
\* 200, "raise" an exception of requests.post, "bad_json" a body json()
\* rejects.  "not_list" is a JSON object or string, whose entities are what
\* the loop of line 184 goes through, the keys of the object or the
\* characters of the string, none of them a dict: {} and "" have none,
\* {"error": ...} has one.  "not_iterable" is a JSON number, true, false
\* or null.
Replies ==
    {[kind |-> k, entities |-> <<>>] : k \in {"bad_status", "raise", "bad_json", "not_iterable"}}
        \cup {[kind |-> "ok", entities |-> b] : b \in SeqsUpTo(EntityPool, MaxEntities)}
        \cup {[kind |-> "not_list", entities |-> b] : b \in SeqsUpTo({NotADict}, MaxEntities)}

\* the arguments of direct calls of _parse_conversion_instructions
CodePool == {ABC123, XYZ789}

PlatformPool == {Stake, SportyBet, Sportybet}

MaxCodes == 2

MaxPlatforms == 2

CodeLists == DistinctSeqsUpTo(CodePool, MaxCodes)

PlatformLists == DistinctSeqsUpTo(PlatformPool, MaxPlatforms)

ConvertTexts == {ConvertText(P, C, Q) : P \in PlatformPool, C \in CodePool, Q \in PlatformPool}

ParseTexts ==
    {TestParseText, TestParseTwoText, NoPatternText, PlatformOnlyText} \cup ConvertTexts

\* the concatenation of a sequence of texts
RECURSIVE Concat(_)
Concat(q) == IF q = <<>> THEN <<>> ELSE Head(q) \o Concat(Tail(q))

\* eight digits, the last of them ARABIC-INDIC DIGIT THREE
MixedDigits ==
    <<"1","2","3","4","5","6","7","U+0663">>

\* The texts of direct calls of _extract_codes are put together from these
\* pieces: separators, words of 6 letters and digits in both cases, a number
\* of 13 digits, a prefixed number, a word and a number that are too short,
\* a word that str.upper() makes longer, a number with a digit beyond ASCII
\* and a letter beyond ASCII.
TokenPieces ==
    {<<" ">>, <<"_">>, <<"a","b","c","1","2","3">>, <<"A","B","C","1","2","3">>,
     <<"1","2","3","4","5","6","7","8","9","0","1","2","3">>, <<"x","y","1","2","3","4">>, <<"a","b","c","d","e">>, <<"1","2","3","4">>,
     Strass, MixedDigits, <<"é">>}

MaxPieces == 3

TokenTexts == {Concat(q) : q \in SeqsUpTo(TokenPieces, MaxPieces)}

\* The texts that are normalized twice are put together from these pieces:
\* the two markers, whitespace (a space and a no-break space), a character
\* that is neither whitespace nor part of a word, a letter beyond ASCII and
\* a word that is a code.
MarkPieces ==
    {<<"@">>, <<"#">>, <<" ">>, <<"U+00A0">>, <<"-">>, <<"é">>,
     <<"a","b","c","1","2","3">>}

MaxMarks == 4

MarkedTexts == {Concat(q) : q \in SeqsUpTo(MarkPieces, MaxMarks)}

(***************************************************************************)
(* The state: one call of extract_betting_info (entry "facade"), one       *)
(* direct call of _parse_conversion_instructions (entry "parse") or of     *)
(* _extract_codes (entry "extract_codes"), or a text that is normalized    *)
(* twice and tokenized after each normalization (entry "renormalize").     *)
(***************************************************************************)
VARIABLES
    entry,              \* the operation that was called
    fault,              \* the internal step made to raise
    raw_text,           \* the argument text
    pc,                 \* the position of the call
    cleaned_text,       \* cleaned_text (line 54); text of a direct parse call
    codes,              \* codes (line 57)
    keyword_platforms,  \* platforms after the keyword pass (line 138)
    reply,              \* the outcome of the recognition request
    nlp_platforms,      \* nlp_platforms (line 142)
    platforms,          \* platforms (line 60)
    conversion_pairs,   \* conversion_pairs (line 213)
    tier1_pairs,        \* conversion_pairs as the pattern loop left it (line 249)
    tier1_matches,      \* the groups of the matches of conversion_patterns in
                        \* cleaned_text, which the pattern loop goes through
                        \* (lines 224-227): a function of the text alone, kept
                        \* with the text
    attempts,           \* the calls of requests.post made so far (line 173)
    cleaned_again,      \* _preprocess_text applied to cleaned_text
    codes_again,        \* _extract_codes applied to cleaned_again
    exc,                \* the exception raised in the try block, if any
    result,             \* the returned list, once returned
    outcome,            \* "running", "returned" or "raised"
    \* the request handler and the conversion service
    extracted_data,     \* extracted_data (api/main.py line 196)
    service,            \* how the conversion service behaves for each triple
    item_index,         \* the position of the loop of line 235
    converted_results,  \* converted_results (line 234)
    response,           \* the BetCodeResponse returned, if any
    reply_tasks,        \* the replies handed to background_tasks.add_task
    convert_calls,      \* the triples convert_code was called with
    requests_issued,    \* the calls of _make_conversion_request made so far
    call_args,          \* the arguments of a direct call of the converter
    \* the bot manager, its bots and their threads
    bot,                \* TwitterBotManager.bot
    bot_thread,         \* TwitterBotManager.bot_thread
    manager_pc,         \* the position of the manager's caller
    is_running,         \* is_running of each bot created
    processed_mentions, \* processed_mentions of each bot created
    last_mention_id,    \* last_mention_id of each bot created
    thread_pc,          \* the position of each thread in run_bot
    thread_bot,         \* the bot whose start_monitoring the thread runs
    mention_pc,         \* the position of the thread's mention task
    dm_pc,              \* the position of the thread's DM task
    batch,              \* the mentions of the poll the thread has not looked at
    handed,             \* per bot, the ids handed to _process_mention, in order
    stopped,            \* the bots for which stop_bot has returned
    manual_calls        \* the calls of process_manual_mention made so far

extraction_vars ==
    <<raw_text, cleaned_text, codes, keyword_platforms, reply,
      nlp_platforms, platforms, conversion_pairs, tier1_pairs, tier1_matches, attempts,
      cleaned_again, codes_again>>

handler_vars ==
    <<extracted_data, service, item_index, converted_results, response, reply_tasks,
      convert_calls, requests_issued, call_args>>

bot_vars ==
    <<bot, bot_thread, manager_pc, is_running, processed_mentions, last_mention_id,
      thread_pc, thread_bot, mention_pc, dm_pc, batch, handed, stopped, manual_calls>>

vars == <<entry, fault, pc, exc, result, outcome, extraction_vars, handler_vars, bot_vars>>

\* no extraction is under way
ExtractionIdle ==
    /\ raw_text = None
    /\ cleaned_text = <<>>
    /\ codes = <<>>
    /\ keyword_platforms = <<>>
    /\ reply = NoReply
    /\ nlp_platforms = <<>>
    /\ platforms = <<>>
    /\ conversion_pairs = <<>>
    /\ tier1_pairs = <<>>
    /\ tier1_matches = <<>>
    /\ attempts = 0
    /\ cleaned_again = <<>>
    /\ codes_again = <<>>

\* no request is being handled
HandlerIdle ==
    /\ extracted_data = <<>>
    /\ service = <<>>
    /\ item_index = 0
    /\ converted_results = <<>>
    /\ response = None
    /\ reply_tasks = <<>>
    /\ convert_calls = <<>>
    /\ requests_issued = 0
    /\ call_args = <<>>

\* TwitterBotManager.__init__, lines 260-262: no bot and no thread
BotIdle ==
    /\ bot = None
    /\ bot_thread = None
    /\ manager_pc = [at |-> "idle", stopping |-> None]
    /\ is_running = <<>>
    /\ processed_mentions = <<>>
    /\ last_mention_id = <<>>
    /\ thread_pc = <<>>
    /\ thread_bot = <<>>
    /\ mention_pc = <<>>
    /\ dm_pc = <<>>
    /\ batch = <<>>
    /\ handed = <<>>
    /\ stopped = {}
    /\ manual_calls = 0

Init ==
    /\ \/ /\ entry = "facade"
          /\ raw_text \in FacadeInputs
          /\ fault \in Faults
          /\ pc = "preprocess"
          /\ cleaned_text = <<>>
          /\ tier1_matches = <<>>
          /\ codes = <<>>
          /\ platforms = <<>>
       \/ /\ entry = "parse"
          /\ fault = "none"
          /\ pc = "tier1"
          /\ cleaned_text \in ParseTexts
          /\ tier1_matches = Tier1Matches(cleaned_text)
          /\ raw_text = Some(cleaned_text)
          /\ codes \in CodeLists
          /\ platforms \in PlatformLists
       \/ /\ entry = "extract_codes"
          /\ fault = "none"
          /\ pc = "extract_codes"
          /\ cleaned_text \in TokenTexts
          /\ tier1_matches = <<>>
          /\ raw_text = Some(cleaned_text)
          /\ codes = <<>>
          /\ platforms = <<>>
       \/ /\ entry = "renormalize"
          /\ fault = "none"
          /\ pc = "preprocess"
          /\ raw_text \in {Some(t) : t \in MarkedTexts}
          /\ cleaned_text = <<>>
          /\ tier1_matches = <<>>
          /\ codes = <<>>
          /\ platforms = <<>>
    /\ keyword_platforms = <<>>
    /\ reply = NoReply
    /\ nlp_platforms = <<>>
    /\ conversion_pairs = <<>>
    /\ tier1_pairs = <<>>
    /\ attempts = 0
    /\ cleaned_again = <<>>
    /\ codes_again = <<>>
    /\ exc = None
    /\ result = None
    /\ outcome = "running"
    /\ HandlerIdle
    /\ BotIdle

\* an exception leaves the try block of lines 52-66
Raise(kind) ==
    /\ exc' = Some(kind)
    /\ pc' = "except"

\* line 54: a patched _preprocess_text raises whatever its argument is, the
\* code's own raises TypeError in re.sub (line 83) for an argument that is
\* no string; the matches of conversion_patterns in the cleaned text, which
\* depend on nothing but the text, are kept with it for the pattern loop
Preprocess ==
    /\ pc = "preprocess"
    /\ IF fault = "preprocess"
       THEN Raise("Exception") /\ UNCHANGED <<cleaned_text, tier1_matches>>
       ELSE IF raw_text = None
            THEN Raise("TypeError") /\ UNCHANGED <<cleaned_text, tier1_matches>>
            ELSE /\ cleaned_text' = preprocess_text(raw_text[1])
                 /\ tier1_matches' =
                       IF entry = "facade" THEN Tier1Matches(cleaned_text') ELSE <<>>
                 /\ pc' = IF entry = "renormalize" THEN "preprocess_again"
                                                  ELSE "extract_codes"
                 /\ UNCHANGED exc
    /\ UNCHANGED <<entry, fault, raw_text, codes, keyword_platforms, reply, nlp_platforms,
                   platforms, conversion_pairs, tier1_pairs, result, outcome>>
    /\ UNCHANGED <<attempts, cleaned_again, codes_again>>
    /\ UNCHANGED <<handler_vars, bot_vars>>

\* _preprocess_text applied to its own result
PreprocessAgain ==
    /\ pc = "preprocess_again"
    /\ cleaned_again' = preprocess_text(cleaned_text)
    /\ pc' = "extract_codes"
    /\ UNCHANGED <<entry, fault, raw_text, cleaned_text, codes, keyword_platforms, reply,
                   nlp_platforms, platforms, conversion_pairs, tier1_pairs, exc, result, outcome>>
    /\ UNCHANGED <<tier1_matches, attempts, codes_again>>
    /\ UNCHANGED <<handler_vars, bot_vars>>

\* line 57; a direct call of _extract_codes returns the codes (line 120)
ExtractCodes ==
    /\ pc = "extract_codes"
    /\ IF fault = "extract_codes"
       THEN Raise("Exception") /\ UNCHANGED <<codes, result, outcome>>
       ELSE /\ codes' = extract_codes(cleaned_text)
            /\ UNCHANGED exc
            /\ CASE entry = "facade" ->
                      pc' = "keyword_pass" /\ UNCHANGED <<result, outcome>>
                 [] entry = "renormalize" ->
                      pc' = "extract_codes_again" /\ UNCHANGED <<result, outcome>>
                 [] entry = "extract_codes" ->
                      pc' = "done" /\ result' = Some(codes') /\ outcome' = "returned"
    /\ UNCHANGED <<entry, fault, raw_text, cleaned_text, keyword_platforms, reply,
                   nlp_platforms, platforms, conversion_pairs, tier1_pairs>>
    /\ UNCHANGED <<tier1_matches, attempts, cleaned_again, codes_again>>
    /\ UNCHANGED <<handler_vars, bot_vars>>

\* _extract_codes applied to the text that was normalized twice
ExtractCodesAgain ==
    /\ pc = "extract_codes_again"
    /\ codes_again' = extract_codes(cleaned_again)
    /\ pc' = "done"
    /\ outcome' = "returned"
    /\ UNCHANGED <<entry, fault, raw_text, cleaned_text, codes, keyword_platforms, reply,
                   nlp_platforms, platforms, conversion_pairs, tier1_pairs, exc, result>>
    /\ UNCHANGED <<tier1_matches, attempts, cleaned_again>>
    /\ UNCHANGED <<handler_vars, bot_vars>>

\* line 60 up to the request: the keyword pass of lines 132-138
KeywordStep ==
    /\ pc = "keyword_pass"
    /\ IF fault = "extract_platforms"
       THEN Raise("Exception") /\ UNCHANGED keyword_platforms
       ELSE /\ \E ord \in IterationOrders(KeywordHits(cleaned_text)) :
                  keyword_platforms' = KeywordPass(ord)
            /\ pc' = "nlp_request"
            /\ UNCHANGED exc
    /\ UNCHANGED <<entry, fault, raw_text, cleaned_text, codes, reply, nlp_platforms,
                   platforms, conversion_pairs, tier1_pairs, result, outcome>>
    /\ UNCHANGED <<tier1_matches, attempts, cleaned_again, codes_again>>
    /\ UNCHANGED <<handler_vars, bot_vars>>

\* lines 167-174: the request is handed to the executor and awaited; no
\* timeout is passed to requests.post
NlpRequest ==
    /\ pc = "nlp_request"
    /\ attempts' = attempts + 1
    /\ pc' = "nlp_wait"
    /\ UNCHANGED <<entry, fault, raw_text, cleaned_text, codes, keyword_platforms, reply,
                   nlp_platforms, platforms, conversion_pairs, tier1_pairs, exc, result, outcome>>
    /\ UNCHANGED <<tier1_matches, cleaned_again, codes_again>>
    /\ UNCHANGED <<handler_vars, bot_vars>>

\* the recognition service answers, or the request fails
NlpRespond ==
    /\ pc = "nlp_wait"
    /\ reply' \in Replies
    /\ pc' = "nlp_entities"
    /\ UNCHANGED <<entry, fault, raw_text, cleaned_text, codes, keyword_platforms,
                   nlp_platforms, platforms, conversion_pairs, tier1_pairs, exc, result, outcome>>
    /\ UNCHANGED <<tier1_matches, attempts, cleaned_again, codes_again>>
    /\ UNCHANGED <<handler_vars, bot_vars>>

\* a policy that repeats the request after a failure
AfterReplyWithRetry(r) ==
    IF r.kind = "bad_status" \/ ReplyRaises(r) THEN "nlp_request" ELSE "merge"

\* Where _extract_platforms goes on once _nlp_extract_entities has dealt
\* with the outcome of the request: every path of lines 176-194 returns to
\* line 143, none leads back to the request of line 171.
AfterReply(r) == "merge"

\* lines 176-194, and line 142 taking the result
NlpEntities ==
    /\ pc = "nlp_entities"
    /\ nlp_platforms' = nlp_extract_entities(reply)
    /\ pc' = AfterReply(reply)
    /\ UNCHANGED <<entry, fault, raw_text, cleaned_text, codes, keyword_platforms, reply,
                   platforms, conversion_pairs, tier1_pairs, exc, result, outcome>>
    /\ UNCHANGED <<tier1_matches, attempts, cleaned_again, codes_again>>
    /\ UNCHANGED <<handler_vars, bot_vars>>

\* lines 143-154
MergePlatforms ==
    /\ pc = "merge"
    /\ platforms' = merge_platforms(keyword_platforms, nlp_platforms)
    /\ pc' = "tier1"
    /\ UNCHANGED <<entry, fault, raw_text, cleaned_text, codes, keyword_platforms, reply,
                   nlp_platforms, conversion_pairs, tier1_pairs, exc, result, outcome>>
    /\ UNCHANGED <<tier1_matches, attempts, cleaned_again, codes_again>>
    /\ UNCHANGED <<handler_vars, bot_vars>>

\* line 63 and lines 213-248: the pattern loop over the matches in the text
ParseTier1 ==
    /\ pc = "tier1"
    /\ IF fault = "parse"
       THEN Raise("Exception") /\ UNCHANGED <<conversion_pairs, tier1_pairs>>
       ELSE /\ conversion_pairs' = MatchesPairs(tier1_matches, 1, codes, platforms)
            /\ tier1_pairs' = conversion_pairs'
            /\ pc' = "tier2"
            /\ UNCHANGED exc
    /\ UNCHANGED <<entry, fault, raw_text, cleaned_text, codes, keyword_platforms, reply,
                   nlp_platforms, platforms, result, outcome>>
    /\ UNCHANGED <<tier1_matches, attempts, cleaned_again, codes_again>>
    /\ UNCHANGED <<handler_vars, bot_vars>>

\* lines 250-260
ParseTier2 ==
    /\ pc = "tier2"
    /\ conversion_pairs' =
          IF Tier2Applies(conversion_pairs, codes)
          THEN conversion_pairs \o Tier2Pairs(codes, platforms)
          ELSE conversion_pairs
    /\ pc' = "tier3"
    /\ UNCHANGED <<entry, fault, raw_text, cleaned_text, codes, keyword_platforms, reply,
                   nlp_platforms, platforms, tier1_pairs, exc, result, outcome>>
    /\ UNCHANGED <<tier1_matches, attempts, cleaned_again, codes_again>>
    /\ UNCHANGED <<handler_vars, bot_vars>>

\* lines 262-269
ParseTier3 ==
    /\ pc = "tier3"
    /\ conversion_pairs' =
          IF Tier3Applies(conversion_pairs, codes)
          THEN conversion_pairs \o Tier3Pairs(codes)
          ELSE conversion_pairs
    /\ pc' = "return"
    /\ UNCHANGED <<entry, fault, raw_text, cleaned_text, codes, keyword_platforms, reply,
                   nlp_platforms, platforms, tier1_pairs, exc, result, outcome>>
    /\ UNCHANGED <<tier1_matches, attempts, cleaned_again, codes_again>>
    /\ UNCHANGED <<handler_vars, bot_vars>>

\* line 271 and, for the facade, lines 65-66
Return ==
    /\ pc = "return"
    /\ result' = Some(conversion_pairs)
    /\ outcome' = "returned"
    /\ pc' = "done"
    /\ UNCHANGED <<entry, fault, raw_text, cleaned_text, codes, keyword_platforms, reply,
                   nlp_platforms, platforms, conversion_pairs, tier1_pairs, exc>>
    /\ UNCHANGED <<tier1_matches, attempts, cleaned_again, codes_again>>
    /\ UNCHANGED <<handler_vars, bot_vars>>

\* "except ValueError" in place of "except Exception"
FacadeCatchesValueErrorOnly(kind) == kind = "ValueError"

\* "except Exception" of line 68: the exceptions the clause catches
FacadeCatches(kind) == kind \in {"Exception", "TypeError"}

\* lines 68-70
HandleException ==
    /\ pc = "except"
    /\ IF FacadeCatches(exc[1])
       THEN result' = Some(<<>>) /\ outcome' = "returned"
       ELSE outcome' = "raised" /\ UNCHANGED result
    /\ pc' = "done"
    /\ UNCHANGED <<entry, fault, raw_text, cleaned_text, codes, keyword_platforms, reply,
                   nlp_platforms, platforms, conversion_pairs, tier1_pairs, exc>>
    /\ UNCHANGED <<tier1_matches, attempts, cleaned_again, codes_again>>
    /\ UNCHANGED <<handler_vars, bot_vars>>

\* the steps of the program itself
ProgramStep ==
    \/ Preprocess
    \/ PreprocessAgain
    \/ ExtractCodes
    \/ ExtractCodesAgain
    \/ KeywordStep
    \/ NlpRequest
    \/ NlpEntities
    \/ MergePlatforms
    \/ ParseTier1
    \/ ParseTier2
    \/ ParseTier3
    \/ Return
    \/ HandleException

Next == ProgramStep \/ NlpRespond

Spec == Init /\ [][Next]_vars

(***************************************************************************)
(* The conversion service: src/src/services/bet_converter.py               *)
(***************************************************************************)
\* platform_mapping, lines 36-47: pairs of a key and its value
platform_mapping ==
    <<
      <<<<"s","t","a","k","e">>,
        <<"s","t","a","k","e">>>>,
      <<<<"s","p","o","r","t","y","b","e","t">>,
        <<"s","p","o","r","t","y","b","e","t">>>>,
      <<<<"b","e","t","9","j","a">>,
        <<"b","e","t","9","j","a">>>>,
      <<<<"1","x","b","e","t">>,
        <<"1","x","b","e","t">>>>,
      <<<<"b","e","t","w","a","y">>,
        <<"b","e","t","w","a","y">>>>,
      <<<<"n","a","i","r","a","b","e","t">>,
        <<"n","a","i","r","a","b","e","t">>>>,
      <<<<"m","e","r","r","y","b","e","t">>,
        <<"m","e","r","r","y","b","e","t">>>>,
      <<<<"b","e","t","k","i","n","g">>,
        <<"b","e","t","k","i","n","g">>>>,
      <<<<"b","e","t","n","a","i","j","a">>,
        <<"b","e","t","n","a","i","j","a">>>>,
      <<<<"s","u","p","a","b","e","t">>,
        <<"s","u","p","a","b","e","t">>>>
    >>

\* self.platform_mapping.get(key) of line 214
MappingGet(key) ==
    LET found == {k \in 1..Len(platform_mapping) : platform_mapping[k][1] = key}
    IN  IF found = {} THEN None ELSE Some(platform_mapping[SetMin(found)][2])

\* lines 189-214: _normalize_platform_name of a name, or of None
normalize_platform_name(platform_name) ==
    IF platform_name = None \/ platform_name[1] = <<>>
    THEN None
    ELSE MappingGet(CanonicalKey(platform_name[1]))

\* payload['code'][-6:] of line 134
LastChars(s, n) == IF Len(s) <= n THEN s ELSE SubSeq(s, Len(s) - n + 1, Len(s))

\* "CONV"
Conv == <<"C","O","N","V">>

\* lines 132-148: the simulated response of _make_conversion_request; a key
\* the dict does not hold is None
make_conversion_request(payload) ==
    IF payload.code # <<>> /\ payload.from_platform # None /\ payload.to_platform # None
    THEN [success |-> TRUE,
          converted_code |-> Some(Conv \o LastChars(payload.code, 6)),
          message |-> Some("Code converted successfully (simulated)"),
          error |-> None]
    ELSE [success |-> FALSE, converted_code |-> None, message |-> None,
          error |-> Some("Invalid conversion parameters")]

\* The ways the conversion service behaves for a triple: "simulated" is the
\* code as it is; "request_fails" and "request_raises" are
\* _make_conversion_request patched to return a failure and to raise
\* (tests/test_converter.py lines 97-101 and 124); "raises" is convert_code
\* patched to raise (tests/test_api.py line 311).
RequestBehaviours == {"simulated", "request_fails", "request_raises"}

ServiceBehaviours == RequestBehaviours \cup {"raises"}

\* the response of the request of lines 89-92 when it does not raise
RequestResponse(svc, payload) ==
    IF svc = "request_fails"
    THEN [success |-> FALSE, converted_code |-> None, message |-> None,
          error |-> Some("Code not found")]
    ELSE make_conversion_request(payload)

\* line 73 with the target platform left out of the test
ReachesRequestSourceOnly(original_platform, target_platform) ==
    normalize_platform_name(original_platform) # None

\* line 73: both names are supported, so that lines 81-92 are reached
ReachesRequest(original_platform, target_platform) ==
    /\ normalize_platform_name(original_platform) # None
    /\ normalize_platform_name(target_platform) # None

\* lines 68-115: the dict convert_code returns; a message is the tuple of
\* the pieces its f-string puts together
convert_code(code, original_platform, target_platform, svc) ==
    IF ~ReachesRequest(original_platform, target_platform)
    THEN [success |-> FALSE, code |-> None,
          message |-> <<"Unsupported platform conversion: ", original_platform, " to ",
                        target_platform>>]
    ELSE IF svc = "request_raises"
    THEN [success |-> FALSE, code |-> None,
          message |-> <<"Error converting code: ", "Test error">>]
    ELSE LET answer ==
                 RequestResponse(svc,
                     [code |-> code,
                      from_platform |-> normalize_platform_name(original_platform),
                      to_platform |-> normalize_platform_name(target_platform)])
         IN  IF answer.success
             THEN [success |-> TRUE, code |-> answer.converted_code,
                   message |-> IF answer.message = None THEN <<"">>
                               ELSE <<answer.message[1]>>]
             ELSE [success |-> FALSE, code |-> None,
                   message |-> IF answer.error = None THEN <<"Conversion failed">>
                               ELSE <<answer.error[1]>>]

\* the calls of _make_conversion_request a call of convert_code makes
RequestsOf(original_platform, target_platform) ==
    IF ReachesRequest(original_platform, target_platform) THEN 1 ELSE 0

(***************************************************************************)
(* Platform names handed to the conversion service                         *)
(***************************************************************************)
\* "stake"
StakeLower ==
    <<"s","t","a","k","e">>

\* "STAKE"
StakeUpper ==
    <<"S","T","A","K","E">>

\* "StAkE"
StakeMixed ==
    <<"S","t","A","k","E">>

\* "SpOrTyBeT"
SportyBetMixed ==
    <<"S","p","O","r","T","y","B","e","T">>

\* "sporty"
Sporty ==
    <<"s","p","o","r","t","y">>

\* "Sporty Bet"
SportyBetSpaced ==
    <<"S","p","o","r","t","y"," ","B","e","t">>

\* "1x"
OneX ==
    <<"1","x">>

\* "1X Bet"
OneXBetSpaced ==
    <<"1","X"," ","B","e","t">>

\* "unknown"
Unknown ==
    <<"u","n","k","n","o","w","n">>

\* "UnsupportedPlatform"
UnsupportedPlatform ==
    <<"U","n","s","u","p","p","o","r","t","e","d","P","l","a","t","f","o","r","m">>

\* "1xbit"
OneXBit ==
    <<"1","x","b","i","t">>

\* "Betpawa"
Betpawa ==
    <<"B","e","t","p","a","w","a">>

\* " Stake "
PaddedStake ==
    <<" ","S","t","a","k","e"," ">>

\* "STAKE" with the Kelvin sign for the K
KelvinStake ==
    <<"S","T","A","U+212A","E">>

\* "ſtake" with the long s, whose upper case is "STAKE"
LongSStake ==
    <<"U+017F","t","a","k","e">>

\* "Stake" between a no-break space and a carriage return
NbspStake ==
    <<"U+00A0","S","t","a","k","e","\r">>

(***************************************************************************)
(* The request handler: process_mention of src/src/api/main.py, whose      *)
(* lines 196-284 process_dm (lines 323-410) and _process_mention of        *)
(* src/src/bot/twitter_bot.py (lines 158-217) repeat.                      *)
(***************************************************************************)
\* ", ".join(texts) of line 219
RECURSIVE JoinCodes(_)
JoinCodes(texts) ==
    IF texts = <<>> THEN <<>>
    ELSE IF Len(texts) = 1 THEN texts[1]
    ELSE texts[1] \o <<",", " ">> \o JoinCodes(Tail(texts))

\* the codes of a list of triples, line 219
CodesOf(items) == [i \in 1..Len(items) |-> items[i].code]

\* lines 213-216 with the test of the target platform left out
MissingPlatformsSourceOnly(extracted_list) ==
    SelectSeq(extracted_list, LAMBDA item : item.original_platform = None)

\* lines 213-216 of api/main.py (166-169 of bot/twitter_bot.py): the triples
\* that lack a platform
MissingPlatforms(extracted_list) ==
    SelectSeq(extracted_list,
              LAMBDA item : item.original_platform = None \/ item.target_platform = None)

\* line 199
NoCodesMessage ==
    <<"No betting codes or platforms found in your message. Please include codes and specify platforms.">>

\* line 220
ClarificationMessage(missing_platforms) ==
    <<"Please specify the original and target platforms for code(s): ",
      JoinCodes(CodesOf(missing_platforms))>>

\* line 288
ErrorMessage == <<"Sorry, I encountered an error processing your request. Please try again.">>

\* BetCodeResponse(success=..., message=..., converted_codes=...)
BetCodeResponse(success, message, converted) ==
    [success |-> success, message |-> message, converted_codes |-> converted]

\* lines 242-248: the entry of a triple whose conversion returned
ConvertedEntry(item, converted_code) ==
    [original_code |-> item.code,
     original_platform |-> item.original_platform,
     target_platform |-> item.target_platform,
     converted_code |-> converted_code.code,
     message |-> converted_code.message]

\* lines 251-257: the entry of a triple whose conversion raised
FailedEntry(item) ==
    [original_code |-> item.code,
     original_platform |-> item.original_platform,
     target_platform |-> item.target_platform,
     converted_code |-> None,
     message |-> <<"Failed to convert code ", item.code>>]

\* lines 249-257 leaving the loop at the first conversion that raises
AfterRaiseDroppingItem(results, item) == results

\* lines 249-257: a conversion that raised leaves an entry of its own
AfterRaise(results, item) == Append(results, FailedEntry(item))

\* lines 262-268: the part of the reply for one entry
ReplyPart(entry_of_item) ==
    IF entry_of_item.converted_code # None
    THEN <<entry_of_item.original_platform, " ", entry_of_item.original_code, " to ",
           entry_of_item.target_platform, ": ", entry_of_item.converted_code,
           IF entry_of_item.message # <<"">> THEN <<" (", entry_of_item.message, ")">>
           ELSE <<>> >>
    ELSE <<entry_of_item.original_platform, " ", entry_of_item.original_code, ": ",
           entry_of_item.message>>

\* line 270
ReplyMessage(results) ==
    <<"Converted codes: ", [i \in 1..Len(results) |-> ReplyPart(results[i])]>>

\* The triples an extraction hands to the handler: two with both platforms,
\* one without a target, one without any platform, and one whose source the
\* vocabulary knows and the conversion service does not support.
TriplePool ==
    {Pair(ABC123, Some(Stake), Some(Sportybet)),
     Pair(XYZ789, Some(Bet9ja), Some(OneXBet)),
     Pair(ABC123, Some(Stake), None),
     Pair(XYZ789, None, None),
     Pair(ABC123, Some(Betpawa), Some(Stake))}

MaxItems == 2

ExtractedLists == SeqsUpTo(TriplePool, MaxItems)

\* the steps of the handler made to raise: "extract" is extract_betting_info
\* patched to raise (tests/test_api.py)
HandlerFaults == {"none", "extract"}

\* the codes handed to convert_code: a code, an empty string, a long code
LongCode == <<"1","2","3","4","5","6","7","8","9","0","1","2","3">>

CodeArgs == {ABC123, <<>>, LongCode}

\* the platform names handed to _normalize_platform_name and convert_code
BaseNames ==
    {Stake, StakeMixed, SportyBet, SportyBetMixed, Sporty, SportyBetSpaced, OneX,
     OneXBetSpaced, OneXBet, Bet9ja, Unknown, UnsupportedPlatform, OneXBit, Betpawa,
     PaddedStake, KelvinStake, LongSStake, NbspStake}

NameArgs ==
    {None, Some(<<>>)} \cup {Some(n) : n \in BaseNames}
        \cup {Some(lower(n)) : n \in BaseNames} \cup {Some(upper(n)) : n \in BaseNames}

\* the platform arguments of the direct calls of convert_code
ConvertNames ==
    {None, Some(Stake), Some(StakeUpper), Some(StakeMixed), Some(SportyBet),
     Some(SportyBetMixed), Some(Sporty), Some(UnsupportedPlatform), Some(Betpawa)}

\* The state before a request is handled (entry "process_mention"), before a
\* direct call of convert_code (entry "convert_code") and before a direct
\* call of _normalize_platform_name (entry "normalize_platform_name").
HandlerInit ==
    /\ \/ /\ entry = "process_mention"
          /\ fault \in HandlerFaults
          /\ pc = "extract"
          /\ extracted_data \in ExtractedLists
          /\ service \in [1..Len(extracted_data) -> ServiceBehaviours]
          /\ call_args = <<>>
       \/ /\ entry = "convert_code"
          /\ fault = "none"
          /\ pc = "convert_code"
          /\ extracted_data = <<>>
          /\ service \in [1..1 -> RequestBehaviours]
          /\ call_args \in CodeArgs \X ConvertNames \X ConvertNames
       \/ /\ entry = "normalize_platform_name"
          /\ fault = "none"
          /\ pc = "normalize_platform_name"
          /\ extracted_data = <<>>
          /\ service = <<>>
          /\ call_args \in {<<n>> : n \in NameArgs}
    /\ item_index = 0
    /\ converted_results = <<>>
    /\ response = None
    /\ reply_tasks = <<>>
    /\ convert_calls = <<>>
    /\ requests_issued = 0
    /\ exc = None
    /\ result = None
    /\ outcome = "running"
    /\ ExtractionIdle
    /\ BotIdle

\* line 196: the extraction returns, or raises into the handler of line 286.
\* While the extraction is suspended at its recognition request the handler
\* is at line 196 and has changed nothing, which is the state before this
\* step.
ExtractBettingInfo ==
    /\ pc = "extract"
    /\ IF fault = "extract"
       THEN exc' = Some("Exception") /\ pc' = "handler_except"
       ELSE pc' = "check" /\ UNCHANGED exc
    /\ UNCHANGED <<entry, fault, result, outcome, extraction_vars, handler_vars, bot_vars>>

\* lines 198-231: nothing extracted, or a triple without a platform, ends the
\* request with a reply and success=False; otherwise the loop of line 235
\* starts
CheckExtraction ==
    /\ pc = "check"
    /\ IF extracted_data = <<>>
       THEN /\ reply_tasks' = Append(reply_tasks, NoCodesMessage)
            /\ response' = Some(BetCodeResponse(FALSE, NoCodesMessage, <<>>))
            /\ outcome' = "returned"
            /\ pc' = "done"
            /\ UNCHANGED item_index
       ELSE IF MissingPlatforms(extracted_data) # <<>>
       THEN /\ reply_tasks' =
                  Append(reply_tasks, ClarificationMessage(MissingPlatforms(extracted_data)))
            /\ response' =
                  Some(BetCodeResponse(FALSE,
                          ClarificationMessage(MissingPlatforms(extracted_data)), <<>>))
            /\ outcome' = "returned"
            /\ pc' = "done"
            /\ UNCHANGED item_index
       ELSE /\ item_index' = 1
            /\ pc' = "convert"
            /\ UNCHANGED <<reply_tasks, response, outcome>>
    /\ UNCHANGED <<entry, fault, exc, result, extraction_vars, bot_vars>>
    /\ UNCHANGED <<extracted_data, service, converted_results, convert_calls,
                   requests_issued, call_args>>

\* lines 235-257: a turn of the loop over the triples calls convert_code.
\* A call that raises at once, or returns at lines 74-78 of bet_converter.py
\* because a platform is not supported, ends the turn with the entry of
\* lines 251-257 or 242-248.  Otherwise convert_code hands its request to
\* the executor and is suspended at line 89 of bet_converter.py, and
\* process_mention with it at line 237: the event loop runs other tasks
\* before the turn goes on.
ConvertItem ==
    /\ pc = "convert"
    /\ item_index <= Len(extracted_data)
    /\ LET item == extracted_data[item_index]
           svc == service[item_index]
       IN  /\ convert_calls' = Append(convert_calls, item)
           /\ IF svc = "raises"
              THEN /\ converted_results' = AfterRaise(converted_results, item)
                   /\ item_index' = item_index + 1
                   /\ UNCHANGED <<requests_issued, pc>>
              ELSE IF ~ReachesRequest(item.original_platform, item.target_platform)
              THEN /\ converted_results' =
                         Append(converted_results,
                                ConvertedEntry(item,
                                    convert_code(item.code, item.original_platform,
                                                 item.target_platform, svc)))
                   /\ item_index' = item_index + 1
                   /\ UNCHANGED <<requests_issued, pc>>
              ELSE /\ requests_issued' =
                         requests_issued
                            + RequestsOf(item.original_platform, item.target_platform)
                   /\ pc' = "convert_wait"
                   /\ UNCHANGED <<converted_results, item_index>>
    /\ UNCHANGED <<entry, fault, exc, result, outcome, extraction_vars, bot_vars>>
    /\ UNCHANGED <<extracted_data, service, response, reply_tasks, call_args>>

\* line 237 resumed: the executor has run the request, convert_code returns
\* (bet_converter.py lines 94-115) and lines 242-248 append the entry
ConvertItemResume ==
    /\ pc = "convert_wait"
    /\ LET item == extracted_data[item_index]
       IN  converted_results' =
               Append(converted_results,
                      ConvertedEntry(item,
                          convert_code(item.code, item.original_platform,
                                       item.target_platform, service[item_index])))
    /\ item_index' = item_index + 1
    /\ pc' = "convert"
    /\ UNCHANGED <<entry, fault, exc, result, outcome, extraction_vars, bot_vars>>
    /\ UNCHANGED <<extracted_data, service, response, reply_tasks, convert_calls,
                   requests_issued, call_args>>

\* lines 259-284: the reply and the response after the loop
SendReply ==
    /\ pc = "convert"
    /\ item_index > Len(extracted_data)
    /\ reply_tasks' = Append(reply_tasks, ReplyMessage(converted_results))
    /\ response' =
          Some(BetCodeResponse(TRUE, <<"Codes processed successfully">>, converted_results))
    /\ outcome' = "returned"
    /\ pc' = "done"
    /\ UNCHANGED <<entry, fault, exc, result, extraction_vars, bot_vars>>
    /\ UNCHANGED <<extracted_data, service, item_index, converted_results, convert_calls,
                   requests_issued, call_args>>

\* lines 286-295: an exception ends the request with a reply and status 500
HandlerExcept ==
    /\ pc = "handler_except"
    /\ reply_tasks' = Append(reply_tasks, ErrorMessage)
    /\ outcome' = "raised"
    /\ pc' = "done"
    /\ UNCHANGED <<entry, fault, exc, result, extraction_vars, bot_vars>>
    /\ UNCHANGED <<extracted_data, service, item_index, converted_results, response,
                   convert_calls, requests_issued, call_args>>

\* a direct call of convert_code, bet_converter.py lines 68-92: it returns
\* at lines 74-78 when a platform is not supported; otherwise it hands the
\* request to the executor and is suspended at line 89
CallConvertCode ==
    /\ pc = "convert_code"
    /\ IF ~ReachesRequest(call_args[2], call_args[3])
       THEN /\ result' =
                  Some(convert_code(call_args[1], call_args[2], call_args[3], service[1]))
            /\ outcome' = "returned"
            /\ pc' = "done"
            /\ UNCHANGED requests_issued
       ELSE /\ requests_issued' = requests_issued + RequestsOf(call_args[2], call_args[3])
            /\ pc' = "convert_code_wait"
            /\ UNCHANGED <<result, outcome>>
    /\ UNCHANGED <<entry, fault, exc, extraction_vars, bot_vars>>
    /\ UNCHANGED <<extracted_data, service, item_index, converted_results, response,
                   reply_tasks, convert_calls, call_args>>

\* bet_converter.py line 89 resumed: the executor has run the request, and
\* lines 94-115 return the dict
CallConvertCodeResume ==
    /\ pc = "convert_code_wait"
    /\ result' = Some(convert_code(call_args[1], call_args[2], call_args[3], service[1]))
    /\ outcome' = "returned"
    /\ pc' = "done"
    /\ UNCHANGED <<entry, fault, exc, extraction_vars, bot_vars>>
    /\ UNCHANGED <<extracted_data, service, item_index, converted_results, response,
                   reply_tasks, convert_calls, requests_issued, call_args>>

\* a direct call of _normalize_platform_name, bet_converter.py lines 179-214
CallNormalizePlatformName ==
    /\ pc = "normalize_platform_name"
    /\ result' = normalize_platform_name(call_args[1])
    /\ outcome' = "returned"
    /\ pc' = "done"
    /\ UNCHANGED <<entry, fault, exc, extraction_vars, handler_vars, bot_vars>>

HandlerNext ==
    \/ ExtractBettingInfo
    \/ CheckExtraction
    \/ ConvertItem
    \/ ConvertItemResume
    \/ SendReply
    \/ HandlerExcept
    \/ CallConvertCode
    \/ CallConvertCodeResume
    \/ CallNormalizePlatformName

HandlerSpec == HandlerInit /\ [][HandlerNext]_vars

(***************************************************************************)
(* The bot and its manager: src/src/bot/twitter_bot.py.  The manager's     *)
(* methods are called one after the other from the event loop of the API;  *)
(* every start_bot creates a bot and a thread, numbered in the order of    *)
(* their creation.  A thread runs run_bot (lines 284-292), which runs      *)
(* start_monitoring of the bot that TwitterBotManager.bot holds when the   *)
(* thread reads it; start_monitoring runs the mention task and the DM task *)
(* (lines 69-73).  The threads and the manager's caller interleave freely. *)
(***************************************************************************)
MaxBots == 2

MaxMentionId == 2

MaxBatch == 2

\* the calls of process_manual_mention that are followed
MaxManual == 1

\* the tweet ids of the mentions
MentionIds == 1..MaxMentionId

\* The outcomes of a poll (lines 95-98): get_mentions raises, returns None
\* after a failure (x_handler.py lines 184-186), returns an empty list, or
\* returns mentions, which may be mentions it has returned before.
PollOutcomes ==
    {[kind |-> "raises", mentions |-> <<>>],
     [kind |-> "failed", mentions |-> <<>>],
     [kind |-> "empty", mentions |-> <<>>]}
        \cup {[kind |-> "mentions", mentions |-> q] :
                 q \in SeqsUpTo(MentionIds, MaxBatch) \ {<<>>}}

Idle == [at |-> "idle", stopping |-> None]

\* the bots and the threads created so far
Bots == 1..Len(is_running)

Threads == 1..Len(thread_pc)

\* FlexCodeTwitterBot.__init__ (lines 46-52), the manager and the thread
\* before anything runs (entry "bot")
BotInit ==
    /\ entry = "bot"
    /\ fault = "none"
    /\ pc = "bot"
    /\ exc = None
    /\ result = None
    /\ outcome = "running"
    /\ ExtractionIdle
    /\ HandlerIdle
    /\ bot = None
    /\ bot_thread = None
    /\ manager_pc = Idle
    /\ is_running = <<>>
    /\ processed_mentions = <<>>
    /\ last_mention_id = <<>>
    /\ thread_pc = <<>>
    /\ thread_bot = <<>>
    /\ mention_pc = <<>>
    /\ dm_pc = <<>>
    /\ batch = <<>>
    /\ handed = <<>>
    /\ stopped = {}
    /\ manual_calls = 0

\* what neither the manager nor a thread changes
BotFrame == UNCHANGED <<entry, fault, pc, exc, result, outcome, extraction_vars, handler_vars>>

\* line 278: self.bot and self.bot.is_running
AlreadyRunning == bot # None /\ is_running[bot[1]]

\* start_bot, lines 278-297: nothing if the bot is running; otherwise a new
\* bot (lines 46-52: not running, nothing processed) and a started thread
StartBot ==
    /\ manager_pc = Idle
    /\ Len(is_running) < MaxBots
    /\ ~AlreadyRunning
    /\ bot' = Some(Len(is_running) + 1)
    /\ bot_thread' = Some(Len(thread_pc) + 1)
    /\ is_running' = Append(is_running, FALSE)
    /\ processed_mentions' = Append(processed_mentions, {})
    /\ last_mention_id' = Append(last_mention_id, None)
    /\ handed' = Append(handed, <<>>)
    /\ thread_pc' = Append(thread_pc, "started")
    /\ thread_bot' = Append(thread_bot, 0)
    /\ mention_pc' = Append(mention_pc, "none")
    /\ dm_pc' = Append(dm_pc, "none")
    /\ batch' = Append(batch, <<>>)
    /\ UNCHANGED <<manager_pc, stopped, manual_calls>>
    /\ BotFrame

\* stop_bot, lines 303-305: stop_monitoring (line 84) and self.bot = None
StopBotSignal ==
    /\ manager_pc = Idle
    /\ manager_pc' = [at |-> "join", stopping |-> bot]
    /\ is_running' = IF bot = None THEN is_running
                     ELSE [is_running EXCEPT ![bot[1]] = FALSE]
    /\ bot' = None
    /\ UNCHANGED <<bot_thread, processed_mentions, last_mention_id, thread_pc, thread_bot,
                   mention_pc, dm_pc, batch, handed, stopped, manual_calls>>
    /\ BotFrame

\* stop_bot, lines 307-311: join(timeout=5) returns when the thread has
\* ended or when five seconds have passed, whichever is first
StopBotJoin ==
    /\ manager_pc.at = "join"
    /\ bot_thread' = None
    /\ stopped' = stopped \cup (IF manager_pc.stopping = None THEN {}
                                ELSE {manager_pc.stopping[1]})
    /\ manager_pc' = Idle
    /\ UNCHANGED <<bot, is_running, processed_mentions, last_mention_id, thread_pc,
                   thread_bot, mention_pc, dm_pc, batch, handed, manual_calls>>
    /\ BotFrame

\* get_bot_status, lines 320-328: the status it reports
BotStatus ==
    IF bot = None THEN "stopped"
    ELSE IF is_running[bot[1]] THEN "running" ELSE "stopped"

\* run_bot, lines 285-288: the thread reads self.bot; with no bot there the
\* call raises AttributeError, which line 289 catches, and the thread ends
RunBot(t) ==
    /\ t \in Threads
    /\ thread_pc[t] = "started"
    /\ IF bot = None
       THEN /\ thread_pc' = [thread_pc EXCEPT ![t] = "exited"]
            /\ UNCHANGED thread_bot
       ELSE /\ thread_pc' = [thread_pc EXCEPT ![t] = "bound"]
            /\ thread_bot' = [thread_bot EXCEPT ![t] = bot[1]]
    /\ UNCHANGED <<bot, bot_thread, manager_pc, is_running, processed_mentions,
                   last_mention_id, mention_pc, dm_pc, batch, handed, stopped, manual_calls>>
    /\ BotFrame

\* start_monitoring, line 61
SetRunning(t) ==
    /\ t \in Threads
    /\ thread_pc[t] = "bound"
    /\ is_running' = [is_running EXCEPT ![thread_bot[t]] = TRUE]
    /\ thread_pc' = [thread_pc EXCEPT ![t] = "validate"]
    /\ UNCHANGED <<bot, bot_thread, manager_pc, processed_mentions, last_mention_id,
                   thread_bot, mention_pc, dm_pc, batch, handed, stopped, manual_calls>>
    /\ BotFrame

\* start_monitoring, lines 64-70: with invalid credentials it returns;
\* otherwise it creates the two tasks
ValidateCredentials(t, valid) ==
    /\ t \in Threads
    /\ thread_pc[t] = "validate"
    /\ IF valid
       THEN /\ thread_pc' = [thread_pc EXCEPT ![t] = "monitoring"]
            /\ mention_pc' = [mention_pc EXCEPT ![t] = "check"]
            /\ dm_pc' = [dm_pc EXCEPT ![t] = "check"]
       ELSE /\ thread_pc' = [thread_pc EXCEPT ![t] = "exited"]
            /\ UNCHANGED <<mention_pc, dm_pc>>
    /\ UNCHANGED <<bot, bot_thread, manager_pc, is_running, processed_mentions,
                   last_mention_id, thread_bot, batch, handed, stopped, manual_calls>>
    /\ BotFrame

\* _monitor_mentions, line 92, at the start of the task and after the sleep
\* of line 110 or 114
MentionCheck(t) ==
    /\ t \in Threads
    /\ thread_pc[t] = "monitoring"
    /\ mention_pc[t] = "check"
    /\ mention_pc' = [mention_pc EXCEPT ![t] =
                         IF is_running[thread_bot[t]] THEN "poll" ELSE "exited"]
    /\ UNCHANGED <<bot, bot_thread, manager_pc, is_running, processed_mentions,
                   last_mention_id, thread_pc, thread_bot, dm_pc, batch, handed, stopped, manual_calls>>
    /\ BotFrame

\* lines 95-100 and 112-114: the poll; without mentions the task sleeps
MentionPoll(t, polled) ==
    /\ t \in Threads
    /\ thread_pc[t] = "monitoring"
    /\ mention_pc[t] = "poll"
    /\ IF polled.kind = "mentions"
       THEN /\ batch' = [batch EXCEPT ![t] = polled.mentions]
            /\ mention_pc' = [mention_pc EXCEPT ![t] = "batch"]
       ELSE /\ mention_pc' = [mention_pc EXCEPT ![t] = "check"]
            /\ UNCHANGED batch
    /\ UNCHANGED <<bot, bot_thread, manager_pc, is_running, processed_mentions,
                   last_mention_id, thread_pc, thread_bot, dm_pc, handed, stopped, manual_calls>>
    /\ BotFrame

\* line 104: the mention has not been processed by this bot
IsNewMention(b, tweet_id) == tweet_id \notin processed_mentions[b]

\* lines 103-105: the next mention of the batch is skipped, or handed to
\* _process_mention; after the last one the task sleeps (line 110)
MentionNext(t) ==
    /\ t \in Threads
    /\ thread_pc[t] = "monitoring"
    /\ mention_pc[t] = "batch"
    /\ IF batch[t] = <<>>
       THEN /\ mention_pc' = [mention_pc EXCEPT ![t] = "check"]
            /\ UNCHANGED <<batch, handed>>
       ELSE IF IsNewMention(thread_bot[t], Head(batch[t]))
       THEN /\ handed' = [handed EXCEPT ![thread_bot[t]] = Append(@, Head(batch[t]))]
            /\ mention_pc' = [mention_pc EXCEPT ![t] = "processing"]
            /\ UNCHANGED batch
       ELSE /\ batch' = [batch EXCEPT ![t] = Tail(@)]
            /\ UNCHANGED <<mention_pc, handed>>
    /\ UNCHANGED <<bot, bot_thread, manager_pc, is_running, processed_mentions,
                   last_mention_id, thread_pc, thread_bot, dm_pc, stopped, manual_calls>>
    /\ BotFrame

\* lines 105-107: _process_mention has returned (lines 142-227 catch every
\* exception and change no field of the bot); the id is recorded
MentionHandled(t) ==
    /\ t \in Threads
    /\ thread_pc[t] = "monitoring"
    /\ mention_pc[t] = "processing"
    /\ processed_mentions' =
          [processed_mentions EXCEPT ![thread_bot[t]] = @ \cup {Head(batch[t])}]
    /\ last_mention_id' = [last_mention_id EXCEPT ![thread_bot[t]] = Some(Head(batch[t]))]
    /\ batch' = [batch EXCEPT ![t] = Tail(@)]
    /\ mention_pc' = [mention_pc EXCEPT ![t] = "batch"]
    /\ UNCHANGED <<bot, bot_thread, manager_pc, is_running, thread_pc, thread_bot, dm_pc,
                   handed, stopped, manual_calls>>
    /\ BotFrame

\* process_manual_mention, lines 229-252, which the endpoint /test/mention
\* (api/main.py lines 160-164) awaits on the manager's bot and
\* tests/test_bot.py on a bot of its own: the mention goes to
\* _process_mention (line 249) without the test of line 104, and lines
\* 106-107 are not run for it.  No more than MaxManual calls are followed.
ManualMention(b, tweet_id) ==
    /\ b \in Bots
    /\ manual_calls < MaxManual
    /\ manual_calls' = manual_calls + 1
    /\ handed' = [handed EXCEPT ![b] = Append(@, tweet_id)]
    /\ UNCHANGED <<bot, bot_thread, manager_pc, is_running, processed_mentions,
                   last_mention_id, thread_pc, thread_bot, mention_pc, dm_pc, batch,
                   stopped>>
    /\ BotFrame

\* _monitor_dms, lines 122-129: the task ends once the bot is not running
DmCheck(t) ==
    /\ t \in Threads
    /\ thread_pc[t] = "monitoring"
    /\ dm_pc[t] = "check"
    /\ ~is_running[thread_bot[t]]
    /\ dm_pc' = [dm_pc EXCEPT ![t] = "exited"]
    /\ UNCHANGED <<bot, bot_thread, manager_pc, is_running, processed_mentions,
                   last_mention_id, thread_pc, thread_bot, mention_pc, batch, handed,
                   stopped, manual_calls>>
    /\ BotFrame

\* start_monitoring, lines 73-77: both tasks have ended; the finally clause
\* clears is_running and the thread ends
MonitoringDone(t) ==
    /\ t \in Threads
    /\ thread_pc[t] = "monitoring"
    /\ mention_pc[t] = "exited"
    /\ dm_pc[t] = "exited"
    /\ is_running' = [is_running EXCEPT ![thread_bot[t]] = FALSE]
    /\ thread_pc' = [thread_pc EXCEPT ![t] = "exited"]
    /\ UNCHANGED <<bot, bot_thread, manager_pc, processed_mentions, last_mention_id,
                   thread_bot, mention_pc, dm_pc, batch, handed, stopped, manual_calls>>
    /\ BotFrame

\* the numbers a thread, and a bot, can have
ThreadIds == 1..MaxBots

BotIds == 1..MaxBots

BotNext ==
    \/ StartBot
    \/ StopBotSignal
    \/ StopBotJoin
    \/ \E t \in ThreadIds : RunBot(t)
    \/ \E t \in ThreadIds : SetRunning(t)
    \/ \E t \in ThreadIds : \E valid \in BOOLEAN : ValidateCredentials(t, valid)
    \/ \E t \in ThreadIds : MentionCheck(t)
    \/ \E t \in ThreadIds : \E polled \in PollOutcomes : MentionPoll(t, polled)
    \/ \E t \in ThreadIds : MentionNext(t)
    \/ \E t \in ThreadIds : MentionHandled(t)
    \/ \E b \in BotIds : \E tweet_id \in MentionIds : ManualMention(b, tweet_id)
    \/ \E t \in ThreadIds : DmCheck(t)
    \/ \E t \in ThreadIds : MonitoringDone(t)

BotSpec == BotInit /\ [][BotNext]_vars


(***************************************************************************)
(* The claims                                                              *)
(***************************************************************************)
\* the call is a call of the facade that ran without an injected fault and
\* has returned, the recognition call having contributed no entity
ReturnedWithoutEntities(text) ==
    /\ entry = "facade"
    /\ raw_text = Some(text)
    /\ fault = "none"
    /\ pc = "done"
    /\ nlp_platforms = <<>>

HasPairFor(pairs, code) == \E i \in 1..Len(pairs) : pairs[i].code = code

\* C1: Tier 2 contributes triples only when Tier 1 produced none: whenever
\* the pattern loop of Tier 1 yields at least one triple, the returned
\* sequence is exactly the output of Tier 1.
C1_TierFallbackOrdering ==
    /\ (pc \in {"tier3", "return", "done"} /\ exc = None /\ tier1_pairs # <<>>)
          => conversion_pairs = tier1_pairs
    /\ (pc = "done" /\ exc = None /\ tier1_pairs # <<>>) => result = Some(tier1_pairs)

\* C1 witness: a call has returned the triples of Tier 1 although the
\* positional pairing of Tier 2 would have given other triples.
C1_Witness ==
    /\ pc = "done"
    /\ exc = None
    /\ codes # <<>>
    /\ tier1_pairs # <<>>
    /\ result = Some(tier1_pairs)
    /\ tier1_pairs # Tier2Pairs(codes, platforms)

\* C2: for "@FlexCodeBot Convert Stake code ABC123 to SportyBet" the
\* extracted code list is exactly ["ABC123"].
C2_ScenarioACodes ==
    (entry = "facade" /\ raw_text = Some(ScenarioA) /\ pc = "keyword_pass")
        => codes = <<ABC123>>

\* C3: for the same input, the recognition call returning no entities, the
\* facade resolves the triple (ABC123, Stake, Sportybet).
C3_ScenarioATriple ==
    ReturnedWithoutEntities(ScenarioA)
        => InList(Pair(ABC123, Some(Stake), Some(Sportybet)), result[1])

\* C4: for "Convert ABC123 to SportyBet" the facade returns one triple with
\* code ABC123, no source platform, and SportyBet as the target platform.
C4_ScenarioBTriple ==
    ReturnedWithoutEntities(ScenarioB)
        => /\ Len(result[1]) = 1
           /\ result[1][1].code = ABC123
           /\ result[1][1].original_platform = None
           /\ result[1][1].target_platform # None
           /\ lower(result[1][1].target_platform[1]) = lower(SportyBet)

\* C5: for the input with two explicit conversions the facade returns at
\* least two triples, one for ABC123 and one for XYZ789, each with the
\* source and target platform the text states.
C5_ScenarioDTriples ==
    ReturnedWithoutEntities(ScenarioD)
        => /\ Len(result[1]) >= 2
           /\ \A c \in {ABC123, XYZ789} :
                 \E i \in 1..Len(result[1]) :
                    /\ result[1][i].code = c
                    /\ result[1][i].original_platform # None
                    /\ result[1][i].target_platform # None

\* C6: for the text "convert P code C to Q" with codes = [C] and
\* platforms = [P, Q] the parser returns exactly one triple, (C, P, Q), with
\* the platform strings as given in the platforms list.
C6_ExplicitPatternOneTriple ==
    (entry = "parse" /\ pc = "done" /\ Len(codes) = 1 /\ Len(platforms) = 2
        /\ cleaned_text = ConvertText(platforms[1], codes[1], platforms[2]))
        => result = Some(<<Pair(codes[1], Some(platforms[1]), Some(platforms[2]))>>)

\* C7: when no codes were extracted the parser returns an empty sequence,
\* whatever platforms were found and whatever the text matches; the facade
\* returns an empty list for "Hello, how are you?".
C7_NoCodesNoTriples ==
    /\ (pc \in {"tier2", "tier3", "return", "done"} /\ codes = <<>>)
          => conversion_pairs = <<>>
    /\ (entry \in {"facade", "parse"} /\ pc = "done" /\ codes = <<>>) => result = Some(<<>>)
    /\ (entry = "facade" /\ raw_text = Some(ScenarioC) /\ pc = "done")
          => result = Some(<<>>)

\* C7 witness: a direct call without codes, with platforms and with a text
\* the first pattern matches, has returned the empty sequence.
C7_Witness ==
    /\ entry = "parse"
    /\ pc = "done"
    /\ codes = <<>>
    /\ platforms # <<>>
    /\ FindIter(conversion_patterns[1], lower(cleaned_text), 1) # <<>>
    /\ result = Some(<<>>)

\* C8: the facade never raises: it returns a list for every input, and the
\* empty list whenever an internal step raised.
C8_FacadeNeverRaises ==
    entry = "facade" =>
        /\ outcome # "raised"
        /\ pc = "done" => (outcome = "returned" /\ result # None)
        /\ (pc = "done" /\ exc # None) => result = Some(<<>>)

\* C8 witness: _extract_codes raised and the facade returned the empty list.
C8_Witness ==
    /\ entry = "facade"
    /\ fault = "extract_codes"
    /\ pc = "done"
    /\ exc # None
    /\ result = Some(<<>>)

\* the recognition call failed: a status other than 200, an exception, or
\* a malformed body
RecognitionFailed ==
    \/ reply.kind \in {"bad_status", "raise", "bad_json", "not_list", "not_iterable"}
    \/ /\ reply.kind = "ok"
       /\ \E i \in 1..Len(reply.entities) :
             \/ ~reply.entities[i].is_dict
             \/ reply.entities[i].entity_group = "ORG" /\ reply.entities[i].word = None

\* C9: a failed recognition call never fails _extract_platforms: the
\* external pass contributes no candidate and the result is exactly the
\* deduplicated candidates of the keyword pass.
C9_RecognitionFailureIsSilent ==
    (entry = "facade" /\ RecognitionFailed) =>
        /\ pc # "nlp_entities" => nlp_platforms = <<>>
        /\ pc \notin {"nlp_entities", "merge"} => platforms = Unique(keyword_platforms)
        /\ fault = "none" => (exc = None /\ outcome # "raised")

\* C9 witness: the body held a well-formed organization before a malformed
\* element, and the platforms are those of the keyword pass.
C9_Witness ==
    /\ entry = "facade"
    /\ pc = "tier1"
    /\ reply = [kind |-> "ok", entities |-> <<SubTokenPawa, NotADict>>]
    /\ keyword_platforms # <<>>
    /\ platforms = keyword_platforms

\* C10: an extraction call returns even when the recognition service never
\* responds: the external call is bounded by a timeout, so that a call
\* waiting for the service always has a step of its own to go on with.
C10_WaitIsBounded == pc = "nlp_wait" => ENABLED ProgramStep

\* C11: each call of extract_betting_info makes exactly one attempt at the
\* recognition request: no call makes a second one, whatever the outcome
\* of the first, and a call that got as far as the recognizer has made one,
\* also when no codes were found.
C11_SingleAttempt ==
    /\ attempts <= 1
    /\ (entry = "facade"
            /\ pc \in {"nlp_wait", "nlp_entities", "merge", "tier1", "tier2", "tier3", "return"})
          => attempts = 1
    /\ (entry = "facade" /\ pc = "done" /\ raw_text # None /\ fault \in {"none", "parse"})
          => attempts = 1

\* C11 witness: a call for a text without codes has returned after a
\* request that failed, having made one attempt.
C11_Witness ==
    /\ entry = "facade"
    /\ pc = "done"
    /\ codes = <<>>
    /\ RecognitionFailed
    /\ attempts = 1

\* the token occurs in s as a whole word: no word character before or after
IsWholeWordOf(token, s) ==
    \E j \in 1..(Len(s) - Len(token) + 1) :
        /\ SubSeq(s, j, j + Len(token) - 1) = token
        /\ ~IsWordAt(s, j - 1)
        /\ ~IsWordAt(s, j + Len(token))

\* the letters and the numeric characters: \w without the underscore
Alnum == WordChars \ {"_"}

\* s has a run of n or more letters and digits
HasAlnumRun(s, n) ==
    \E j \in 1..(Len(s) - n + 1) : \A d \in 0..(n - 1) : s[j + d] \in Alnum

\* the codes are those _extract_codes computed from cleaned_text
CodesFromText == entry # "parse"

\* C12: every token _extract_codes returns is a whole word of the
\* upper-cased text made of upper-case letters and digits, 6 to 15
\* characters long; a text without a run of 6 letters and digits yields no
\* token.
C12_TokensAreLongAlnumWords ==
    CodesFromText =>
        /\ \A i \in 1..Len(codes) :
              /\ Len(codes[i]) >= 6
              /\ Len(codes[i]) <= 15
              /\ \A j \in 1..Len(codes[i]) : codes[i][j] \in UpperSet \cup DigitChars
              /\ IsWholeWordOf(codes[i], upper(cleaned_text))
        /\ ~HasAlnumRun(cleaned_text, 6) => codes = <<>>

\* the starts of the matches re.findall(pattern k) finds in s from i on
RECURSIVE CodeMatchStarts(_, _, _)
CodeMatchStarts(k, s, i) ==
    LET starts == {j \in i..Len(s) : CodePatternMatch(k, s, j) > 0}
    IN  IF starts = {} THEN {}
        ELSE LET j == SetMin(starts)
             IN  {j} \cup CodeMatchStarts(k, s, CodePatternMatch(k, s, j))

\* the starts of the matches of pattern k that are the token
TokenStarts(token, k, s) ==
    {j \in CodeMatchStarts(k, s, 1) : SubSeq(s, j, CodePatternMatch(k, s, j) - 1) = token}

\* the position of the first match of the token, whatever the pattern
FirstMatchPosition(token, s) ==
    SetMin(TokenStarts(token, 1, s) \cup TokenStarts(token, 2, s) \cup TokenStarts(token, 3, s))

\* the first pattern of the list that matches the token
FirstPattern(token, s) == SetMin({k \in 1..3 : TokenStarts(token, k, s) # {}})

IsDuplicateFree(list) == \A i, j \in 1..Len(list) : i # j => list[i] # list[j]

\* C13 as stated: _extract_codes returns a duplicate-free sequence ordered
\* by the position of the first match of each code in the text, whatever
\* the pattern that matched it.
C13_OrderedByFirstPosition ==
    (entry = "extract_codes" /\ pc = "done") =>
        /\ IsDuplicateFree(result[1])
        /\ \A i, j \in 1..Len(result[1]) :
              i < j => FirstMatchPosition(result[1][i], upper(cleaned_text))
                          < FirstMatchPosition(result[1][j], upper(cleaned_text))

\* C13 as amended: _extract_codes returns a duplicate-free sequence ordered
\* by the first pattern of the list that matches the code and, among the
\* codes of one pattern, by the position of the first match of that pattern.
C13_OrderedByPatternThenPosition ==
    (entry = "extract_codes" /\ pc = "done") =>
        LET u == upper(cleaned_text)
            out == result[1]
        IN  /\ IsDuplicateFree(out)
            /\ \A i, j \in 1..Len(out) :
                  i < j =>
                     \/ FirstPattern(out[i], u) < FirstPattern(out[j], u)
                     \/ /\ FirstPattern(out[i], u) = FirstPattern(out[j], u)
                        /\ SetMin(TokenStarts(out[i], FirstPattern(out[i], u), u))
                              < SetMin(TokenStarts(out[j], FirstPattern(out[j], u), u))

\* C13 witness: a direct call has returned two codes, the second of which
\* stands before the first in the text.
C13_Witness ==
    /\ entry = "extract_codes"
    /\ pc = "done"
    /\ Len(result[1]) = 2
    /\ FirstMatchPosition(result[1][2], upper(cleaned_text))
          < FirstMatchPosition(result[1][1], upper(cleaned_text))

\* s holds a marker: the character followed by a word character
HasMarker(s, marker) == \E j \in 1..(Len(s) - 1) : s[j] = marker /\ IsWordChar(s[j + 1])

ToSet(list) == {list[i] : i \in 1..Len(list)}

\* the text has been normalized by _preprocess_text
Normalized == entry \in {"facade", "renormalize"} /\ pc # "preprocess" /\ exc = None

\* C14: normalizing twice yields the same code set as normalizing once, and
\* a normalized text holds no @name and no #tag marker, no two whitespace
\* characters in a row and no whitespace at either end.
C14_RenormalizationKeepsCodes ==
    /\ (entry = "renormalize" /\ pc = "done") => ToSet(codes_again) = ToSet(codes)
    /\ Normalized =>
          /\ ~HasMarker(cleaned_text, "@")
          /\ ~HasMarker(cleaned_text, "#")
          /\ \A j \in 1..(Len(cleaned_text) - 1) :
                ~(IsSpaceChar(cleaned_text[j]) /\ IsSpaceChar(cleaned_text[j + 1]))
          /\ cleaned_text # <<>> =>
                (~IsSpaceChar(cleaned_text[1]) /\ ~IsSpaceChar(cleaned_text[Len(cleaned_text)]))

\* C14 witness: a text with a marker and with whitespace that normalization
\* removes was normalized twice and tokenized after each normalization, and
\* holds a code.
C14_Witness ==
    /\ entry = "renormalize"
    /\ pc = "done"
    /\ HasMarker(raw_text[1], "@")
    /\ \E j \in 1..Len(raw_text[1]) : IsSpaceChar(raw_text[1][j])
    /\ \A j \in 1..Len(cleaned_text) : ~IsSpaceChar(cleaned_text[j])
    /\ codes # <<>>
    /\ codes_again = codes

\* the platforms are those _extract_platforms returned
PlatformsExtracted ==
    entry = "facade" /\ pc \in {"tier1", "tier2", "tier3", "return", "done"} /\ exc = None

\* C15: the sequence _extract_platforms returns never holds two candidates
\* with the same canonical key, whatever the text and the response of the
\* recognition service.
C15_NoDuplicateCanonicalKeys ==
    PlatformsExtracted =>
        \A i, j \in 1..Len(platforms) :
            i # j => CanonicalKey(platforms[i]) # CanonicalKey(platforms[j])

\* the hits of the keyword pass in the order of the vocabulary's definition
RECURSIVE DefinitionOrder(_)
DefinitionOrder(hits) ==
    IF hits = {} THEN <<>>
    ELSE <<SetMin(hits)>> \o DefinitionOrder(hits \ {SetMin(hits)})

\* C16: the keyword pass emits its candidates in the order in which the
\* vocabulary is defined, so that the same text and the same response give
\* the same list of platforms, and the same triples, on every run.
C16_KeywordOrderIsFixed ==
    (entry = "facade" /\ pc \in {"nlp_request", "nlp_wait", "nlp_entities", "merge"})
        => keyword_platforms = KeywordPass(DefinitionOrder(KeywordHits(cleaned_text)))

\* the parser has gone through the pattern loop
Tier1Done ==
    entry \in {"facade", "parse"} /\ pc \in {"tier2", "tier3", "return", "done"} /\ exc = None

\* the parser is past the positional pairing
Tier2Done == entry \in {"facade", "parse"} /\ pc \in {"tier3", "return", "done"} /\ exc = None

\* the platform at a 0-based index of the list, or absent
AtIndex(list, n) == IF n + 1 <= Len(list) THEN <<list[n + 1]>> ELSE <<>>

\* C17: when Tier 1 produced no triple and there are codes, the parser
\* returns exactly one triple per code in extraction order, the i-th code
\* (from 0) with platforms[2i] as its source and platforms[2i+1] as its
\* target, each absent where the list has no such index.
C17_PositionalPairing ==
    (Tier2Done /\ tier1_pairs = <<>> /\ codes # <<>>) =>
        /\ Len(conversion_pairs) = Len(codes)
        /\ \A n \in 0..(Len(codes) - 1) :
              /\ conversion_pairs[n + 1].code = codes[n + 1]
              /\ conversion_pairs[n + 1].original_platform = AtIndex(platforms, 2 * n)
              /\ conversion_pairs[n + 1].target_platform = AtIndex(platforms, 2 * n + 1)
        /\ pc = "done" => result = Some(conversion_pairs)

\* C17 witness: a direct call with two codes and two platforms whose text
\* no pattern matches has returned: the first code has both platforms, the
\* second has none.
C17_Witness ==
    /\ entry = "parse"
    /\ pc = "done"
    /\ tier1_pairs = <<>>
    /\ Len(codes) = 2
    /\ Len(platforms) = 2
    /\ result[1][1].target_platform = Some(platforms[2])
    /\ result[1][2].original_platform = None

\* C18: Tier 3 is used only when Tier 1 and Tier 2 both left no triple and
\* there are codes.  Its condition (line 263) never holds when the parser
\* gets there: with codes, Tier 2 has left one triple per code.
C18_Tier3NeverApplies == pc = "tier3" => ~Tier3Applies(conversion_pairs, codes)

\* the group is one of the extracted codes
IsExtractedCode(group) == \E i \in 1..Len(codes) : upper(codes[i]) = upper(group)

\* the match holds an extracted code among its groups
HasCodeGroup(groups) == \E g \in 1..Len(groups) : IsExtractedCode(groups[g])

\* the matches of the pattern loop that hold an extracted code, in order
CodeMatches == SelectSeq(tier1_matches, HasCodeGroup)

\* C19: Tier 1 emits one triple per match, of any of the four patterns,
\* that holds an extracted code among its groups, and none for the other
\* matches; nothing is deduplicated, so the number of triples is the number
\* of such matches and the code of each triple is a group of its match.
C19_OneTriplePerCodeMatch ==
    (Tier1Done /\ pc = "tier2") =>
        LET with_code == CodeMatches
        IN  /\ Len(tier1_pairs) = Len(with_code)
            /\ \A n \in 1..Len(tier1_pairs) :
                  \E g \in 1..Len(with_code[n]) : upper(with_code[n][g]) = tier1_pairs[n].code

\* C19 witness: the pattern loop went through a match without a code and
\* left two triples with the same code.
C19_Witness ==
    /\ Tier1Done
    /\ pc = "done"
    /\ Len(tier1_matches) > Len(tier1_pairs)
    /\ \E i, j \in 1..Len(tier1_pairs) : i # j /\ tier1_pairs[i].code = tier1_pairs[j].code

\* a platform slot as the claim has it: the title-cased group is in the
\* platforms list, or the lower-cased group is in the vocabulary
IsNamedPlatform(group) == InList(title(group), platforms) \/ InList(lower(group), known_platforms)

\* the groups of a match that are platform slots, in left-to-right order
PlatformGroups(groups) == SelectSeq(groups, IsNamedPlatform)

\* C20: in each match that gives a triple, the first group, from left to
\* right, that names a platform is the source and the second is the target;
\* a group that is neither a code nor a platform is ignored.
C20_PlatformSlotsByPosition ==
    (Tier1Done /\ pc = "tier2" /\ Len(tier1_pairs) = Len(CodeMatches)) =>
        \A n \in 1..Len(tier1_pairs) :
            LET named == PlatformGroups(CodeMatches[n])
            IN  /\ tier1_pairs[n].original_platform =
                      (IF Len(named) >= 1 THEN <<title(named[1])>> ELSE <<>>)
                /\ tier1_pairs[n].target_platform =
                      (IF Len(named) >= 2 THEN <<title(named[2])>> ELSE <<>>)

\* the triples a finished call of the facade or of the parser returned
ReturnedTriples ==
    IF entry \in {"facade", "parse"} /\ pc = "done" /\ outcome = "returned" /\ result # None
    THEN result[1] ELSE <<>>

\* C21: every triple returned, whatever tier made it, has a code that is,
\* up to letter case, one of the extracted codes, and has a target platform
\* only if it has a source platform.
C21_TriplesWellFormed ==
    \A n \in 1..Len(ReturnedTriples) :
        /\ ReturnedTriples[n].code # <<>>
        /\ IsExtractedCode(ReturnedTriples[n].code)
        /\ ReturnedTriples[n].target_platform # None
              => ReturnedTriples[n].original_platform # None

\* C21 witness: a call returned a triple of the pattern loop with a source
\* and no target.
C21_Witness ==
    /\ ReturnedTriples # <<>>
    /\ \E n \in 1..Len(ReturnedTriples) :
          /\ ReturnedTriples[n].original_platform # None
          /\ ReturnedTriples[n].target_platform = None
    /\ tier1_pairs # <<>>

\* the messages of the form "convert P code C to Q" among the inputs of the
\* facade, P and Q in the vocabulary and C a code-shaped token
ExplicitRequests == {ScenarioA, ExplicitText}

\* C26: for a message of the form "convert P code C to Q" every triple the
\* facade returns has both platforms, so that the request handler finds no
\* triple with a missing platform and goes on to the conversion.
C26_ExplicitRequestComplete ==
    (entry = "facade" /\ fault = "none" /\ pc = "done" /\ raw_text # None
        /\ raw_text[1] \in ExplicitRequests)
        => (result # None /\ result[1] # <<>> /\ MissingPlatforms(result[1]) = <<>>)

\* a triple without a source or without a target platform
IsIncomplete(item) == item.original_platform = None \/ item.target_platform = None

\* the codes of the incomplete triples of the extraction, in order
IncompleteCodes == CodesOf(SelectSeq(extracted_data, IsIncomplete))

\* C22: the handler calls the conversion service only when the extraction
\* returned at least one triple and no triple lacks a platform; an empty
\* extraction is answered with success=False and the "No betting codes"
\* message; an extraction with an incomplete triple is answered with
\* success=False and the clarification message that lists the codes of the
\* incomplete triples and no others, and no triple is converted.
C22_ConvertsOnlyCompleteExtractions ==
    entry = "process_mention" =>
        /\ convert_calls # <<>> =>
              /\ extracted_data # <<>>
              /\ \A i \in 1..Len(extracted_data) : ~IsIncomplete(extracted_data[i])
        /\ (pc = "done" /\ outcome = "returned" /\ extracted_data = <<>>) =>
              /\ response # None
              /\ ~response[1].success
              /\ response[1].message = NoCodesMessage
              /\ response[1].converted_codes = <<>>
        /\ (pc = "done" /\ outcome = "returned" /\ IncompleteCodes # <<>>) =>
              /\ response # None
              /\ ~response[1].success
              /\ response[1].message[1]
                    = "Please specify the original and target platforms for code(s): "
              /\ response[1].message[2] = JoinCodes(IncompleteCodes)
              /\ response[1].converted_codes = <<>>
              /\ convert_calls = <<>>
              /\ requests_issued = 0

\* C22 witness: a request whose extraction held a complete and an incomplete
\* triple was answered with the clarification message.
C22_Witness ==
    /\ entry = "process_mention"
    /\ pc = "done"
    /\ Len(extracted_data) = 2
    /\ ~IsIncomplete(extracted_data[1])
    /\ IsIncomplete(extracted_data[2])
    /\ response # None
    /\ response[1].message[2] = extracted_data[2].code

\* C23: when the conversion service raises for a triple, the handler records
\* the triple with converted_code None and the "Failed to convert code"
\* message, goes on with the remaining triples and returns success=True with
\* one entry per extracted triple, in the order of the extraction.
C23_RaisingConversionIsRecorded ==
    (entry = "process_mention" /\ pc = "done" /\ convert_calls # <<>>) =>
        /\ response # None
        /\ response[1].success
        /\ convert_calls = extracted_data
        /\ Len(response[1].converted_codes) = Len(extracted_data)
        /\ \A i \in 1..Len(extracted_data) :
              /\ response[1].converted_codes[i].original_code = extracted_data[i].code
              /\ response[1].converted_codes[i].original_platform
                    = extracted_data[i].original_platform
              /\ response[1].converted_codes[i].target_platform
                    = extracted_data[i].target_platform
              /\ service[i] = "raises" =>
                    /\ response[1].converted_codes[i].converted_code = None
                    /\ response[1].converted_codes[i].message
                          = <<"Failed to convert code ", extracted_data[i].code>>

\* C23 witness: the service raised for the first of two triples and the
\* second was converted.
C23_Witness ==
    /\ entry = "process_mention"
    /\ pc = "done"
    /\ service = <<"raises", "simulated">>
    /\ response # None
    /\ Len(response[1].converted_codes) = 2
    /\ response[1].converted_codes[1].converted_code = None
    /\ response[1].converted_codes[2].converted_code # None

\* C24: convert_code returns and does not raise; with a platform name that
\* does not normalize to a supported platform it returns success=False,
\* code=None and the "Unsupported platform conversion" message and issues no
\* conversion request; when the request fails or raises it returns
\* success=False and code=None; a code is returned only with success=True.
C24_ConvertCodeNeverRaises ==
    (entry = "convert_code" /\ pc = "done") =>
        /\ outcome = "returned"
        /\ result # None
        /\ (normalize_platform_name(call_args[2]) = None
              \/ normalize_platform_name(call_args[3]) = None) =>
              /\ ~result[1].success
              /\ result[1].code = None
              /\ result[1].message[1] = "Unsupported platform conversion: "
              /\ requests_issued = 0
        /\ service[1] \in {"request_fails", "request_raises"} =>
              /\ ~result[1].success
              /\ result[1].code = None
        /\ result[1].code # None => result[1].success

\* C24 witness: a call with a supported source and an unsupported target
\* returned a failure without a request.
C24_Witness ==
    /\ entry = "convert_code"
    /\ pc = "done"
    /\ normalize_platform_name(call_args[2]) # None
    /\ normalize_platform_name(call_args[3]) = None
    /\ call_args[3] # None
    /\ requests_issued = 0
    /\ ~result[1].success

\* the keys of platform_mapping
IsSupportedKey(key) == \E k \in 1..Len(platform_mapping) : platform_mapping[k][1] = key

\* the name is, up to letter case and surrounding blanks, a supported key
\* or one of the variations of platform_variations
IsKnownName(name) ==
    \/ IsSupportedKey(strip(lower(name)))
    \/ \E k \in 1..Len(platform_variations) : platform_variations[k][1] = strip(lower(name))

\* C25: _normalize_platform_name gives the same result for names that
\* differ in letter case only; "sporty", "sporty bet", "1x" and "1x bet" give
\* their canonical keys; an unknown, empty or missing name gives None; a
\* result that is not None is a key of platform_mapping; and convert_code
\* succeeds for a supported pair and a code whatever the case of the names.
C25_NormalizationCaseInsensitiveAndTotal ==
    /\ (entry = "normalize_platform_name" /\ pc = "done" /\ call_args[1] # None) =>
          LET name == call_args[1][1]
          IN  /\ result = normalize_platform_name(Some(lower(name)))
              /\ result = normalize_platform_name(Some(upper(name)))
              /\ \A k \in 1..4 :
                    lower(name) = platform_variations[k][1]
                        => result = Some(platform_variations[k][2])
              /\ (name = <<>> \/ ~IsKnownName(name)) => result = None
              /\ result # None => IsSupportedKey(result[1])
    /\ (entry = "normalize_platform_name" /\ pc = "done" /\ call_args[1] = None) =>
          result = None
    /\ (entry = "convert_code" /\ pc = "done" /\ service[1] = "simulated"
          /\ call_args[1] # <<>> /\ call_args[2] # None /\ call_args[3] # None) =>
          ((IsSupportedKey(lower(call_args[2][1])) /\ IsSupportedKey(lower(call_args[3][1])))
              => result[1].success)

\* C27: once stop_bot has returned for a bot, the bot's is_running is False
\* in every later state, whatever the threads did in between, also when
\* stop_bot ran before the thread reached start_monitoring.
C27_StopIsEffective == \A b \in stopped : ~is_running[b]

\* the threads that are inside start_monitoring of bot b
ThreadsInside(b) ==
    {t \in Threads : thread_bot[t] = b /\ thread_pc[t] \in {"validate", "monitoring"}}

\* start_monitoring of bot b was entered, has returned, and no thread is in it
MonitoringReturned(b) ==
    /\ \E t \in Threads : thread_bot[t] = b /\ thread_pc[t] = "exited"
    /\ \A t \in Threads : thread_bot[t] = b => thread_pc[t] = "exited"

\* C28: whenever start_monitoring has returned, for whatever reason,
\* is_running is False, so that get_bot_status does not report "running"
\* for a bot without a loop and a later start_bot is not turned away.
C28_IsRunningReflectsMonitoring ==
    /\ \A b \in Bots : MonitoringReturned(b) => ~is_running[b]
    /\ (bot # None /\ MonitoringReturned(bot[1])) =>
          (BotStatus = "stopped" /\ ~AlreadyRunning)

\* the threads whose mention loop is polling: the loop has started, has not
\* ended, and its bot is running
PollingLoops ==
    {t \in Threads : /\ thread_pc[t] = "monitoring"
                     /\ mention_pc[t] # "exited"
                     /\ is_running[thread_bot[t]]}

\* C29: at most one mention loop is polling at any time.
C29_AtMostOneLoop == Cardinality(PollingLoops) <= 1

\* the mention of bot b that a thread is processing at the moment
BeingProcessed(b) ==
    {Head(batch[t]) : t \in {u \in Threads : thread_bot[u] = b /\ mention_pc[u] = "processing"}}

\* C30: within one bot a tweet id is handed to _process_mention at most
\* once; an id that was handed over and is no longer being processed is in
\* processed_mentions; last_mention_id is one of the processed ids, and is
\* None as long as nothing was processed.
C30_MentionsProcessedOnce ==
    \A b \in Bots :
        /\ \A i, j \in 1..Len(handed[b]) : i # j => handed[b][i] # handed[b][j]
        /\ \A i \in 1..Len(handed[b]) :
              handed[b][i] \in processed_mentions[b] \cup BeingProcessed(b)
        /\ \A id \in processed_mentions[b] : \E i \in 1..Len(handed[b]) : handed[b][i] = id
        /\ IF processed_mentions[b] = {} THEN last_mention_id[b] = None
           ELSE last_mention_id[b] # None /\ last_mention_id[b][1] \in processed_mentions[b]

=============================================================================
